---- MODULE Spec2Model ----
(***************************************************************************)
(* A model of the text annotation core of EasyScanlate:                    *)
(*   - app/core/profile_manager.py : ProfileManager (profiles of texts)    *)
(*   - app/core/translations.py    : the translation exchange codec        *)
(* Python strings are sequences of one-character strings, so that          *)
(* escaping, stripping, line splitting and the regular expressions of the  *)
(* codec are computed character by character.  Profile names are TLA+      *)
(* strings (they are only compared and formatted).                         *)
(***************************************************************************)
EXTENDS Integers, Sequences, FiniteSets, TLC

VARIABLES
    \* ---- ProjectModel / ProfileManager
    ocr_results,          \* the ProjectModel's rows (model.ocr_results)
    profiles,             \* ProfileManager.profiles
    active_profile_name,  \* ProfileManager.active_profile_name
    emitted,              \* Qt signals emitted by the last call, in order
    raised,               \* TRUE iff the last call raised an exception
    ret,                  \* value returned by the last call (None if none)
    last,                 \* the last call (history)
    streak,               \* consecutive update_text calls (history)
    \* ---- translation exchange codec
    exp_call,             \* the call that produced the exchange document
    exp_lines,            \* the lines an export call appended, in order
    content,              \* the exchange document (a Python string)
    imp_pc,               \* position of import_translation_file_content
    imp_lines,            \* content.splitlines() of the running import
    imp_idx,              \* index of the next line of the loop
    translations,         \* the import's result dictionary
    current_filename,     \* the import's current_filename
    \* ---- OCRProcessor (app/core/ocr_processor.py) and the filter settings
    min_text_height,      \* filter setting (OCRProcessor's and main_window's)
    max_text_height,      \* filter setting
    min_confidence,       \* filter setting, in percent
    auto_context_fill,    \* OCRProcessor.auto_context_fill
    stop_requested,       \* OCRProcessor.stop_requested
    ocr_pc,               \* position of OCRProcessor.run
    was_resized,          \* run's was_resized
    scaled_results,       \* run's scaled_results
    filter_i,             \* index of the next result of run's filter loop
    filtered_results,     \* run's filtered_results
    merged_results,       \* run's merged_results
    ocr_signals,          \* signals the OCRProcessor emitted, in order
    merge_calls,          \* arguments run handed to group_and_merge_text (history)
    stop_seen_at,         \* ocr_pc when stop_requested was set (history)
    manual_call,          \* the last _filter_and_merge_results call (history)
    is_running,           \* TranslationThread._is_running
    tt_pc,                \* where TranslationThread.run stands ("none": no thread)
    response_stream,      \* the chunks run has not yet processed
    full_response_text,   \* run's full_response_text
    tt_signals,           \* signals the TranslationThread emitted, in order
    stopped_at,           \* tt_pc when stop() was called (history)
    manual_ocr_handler,   \* CustomScrollArea.manual_ocr_handler
    context_fill_handler, \* CustomScrollArea.context_fill_handler
    mode_last,            \* the last call on a mode handler (history)
    selection_paths,      \* ContextFillHandler.selection_paths
    btn_process_fill,     \* btn_process_fill.isEnabled()
    btn_reset_selection,  \* btn_reset_selection.isEnabled()
    selected_since_reset, \* rectangles accepted since the paths were cleared (history)
    last_rect,            \* new_rect_scene of the last handle_area_selected (history)
    path_call,            \* the last _find_update_path call (history)
    app_version,          \* UpdateHandler.app_version
    latest_release_data,  \* UpdateHandler.latest_release_data
    up_pc,                \* the reply the UpdateHandler waits for ("idle": none)
    manifest_data,        \* UpdateHandler.manifest_data, parsed (self.manifest)
    update_path,          \* UpdateHandler.update_path
    download_queue,       \* UpdateHandler.download_queue
    downloaded_files,     \* UpdateHandler.downloaded_files (file names)
    downloaded_update_dir,\* whether the setting "downloaded_update_dir" is stored
    update_temp_dir,      \* the directory update_temp_dir on disk
    up_signals,           \* signals the UpdateHandler emitted since the last public call
    up_last,              \* the last step of the UpdateHandler (history)
    attempt,              \* the download attempt: "none", "open", "closed" (history)
    fetched,              \* files of the attempt downloaded without error (history)
    dir_open,             \* update_temp_dir holds a started, unfinished download (history)
    existing_ret,         \* what check_for_existing_download returned last
    worker_pc,            \* where UpdateWorker.run stands ("none": no worker)
    install_disk,         \* the files on disk outside the temp directory, by full path
    extract_path,         \* the files under extract_path, by relative path
    worker_manifest,      \* run's manifest
    locked_files,         \* the files os.remove cannot delete
    worker_error,         \* the exception that ended run ("": none)
    disk_before,          \* install_disk when run started (history)
    extract_before        \* extract_path when run had extracted the package (history)

pmVars == <<ocr_results, profiles, active_profile_name, emitted, raised, ret, last, streak>>
codecVars == <<exp_call, exp_lines, content, imp_pc, imp_lines, imp_idx,
               translations, current_filename>>
ocrVars == <<min_text_height, max_text_height, min_confidence, auto_context_fill,
             stop_requested, ocr_pc, was_resized, scaled_results, filter_i,
             filtered_results, merged_results, ocr_signals, merge_calls, stop_seen_at,
             manual_call>>
threadVars == <<is_running, tt_pc, response_stream, full_response_text, tt_signals,
                stopped_at>>
\* the variables of the application around the text core
modeVars == <<manual_ocr_handler, context_fill_handler, mode_last>>
fillVars == <<selection_paths, btn_process_fill, btn_reset_selection,
              selected_since_reset, last_rect>>
pathVars == <<path_call>>
updateVars == <<app_version, latest_release_data, up_pc, manifest_data, update_path,
                download_queue, downloaded_files, downloaded_update_dir, update_temp_dir,
                up_signals, up_last, attempt, fetched, dir_open, existing_ret>>
workerVars == <<worker_pc, install_disk, extract_path, worker_manifest, locked_files,
                worker_error, disk_before, extract_before>>
notPathVars == <<pmVars, codecVars, ocrVars, threadVars, modeVars, fillVars, updateVars,
                 workerVars>>
notUpdateVars == <<pmVars, codecVars, ocrVars, threadVars, modeVars, fillVars,
                   pathVars, workerVars>>
notWorkerVars == <<pmVars, codecVars, ocrVars, threadVars, modeVars, fillVars,
                   pathVars, updateVars>>
appVars == <<ocrVars, threadVars, modeVars, fillVars, pathVars, updateVars, workerVars>>
notOCRVars == <<pmVars, codecVars, threadVars, modeVars, fillVars, pathVars,
                updateVars, workerVars>>
notThreadVars == <<pmVars, codecVars, ocrVars, modeVars, fillVars, pathVars,
                   updateVars, workerVars>>
notModeVars == <<pmVars, codecVars, ocrVars, threadVars, pathVars, updateVars, workerVars>>
vars == <<ocr_results, profiles, active_profile_name, emitted, raised, ret, last, streak,
          exp_call, exp_lines, content, imp_pc, imp_lines, imp_idx,
          translations, current_filename, appVars>>

-----------------------------------------------------------------------------
(* Bounds of the model.                                                    *)

MaxModelRows == 2      \* rows of the ProjectModel in the ProfileManager runs
MaxNewProfiles == 1    \* profiles created (forked or added) on top of the loaded ones
MaxLines == 3          \* lines of a document of the external translation step
MaxExportRows == 3     \* rows handed to generate_for_translate_content
MaxRetranslateRows == 5 \* rows handed to generate_retranslate_content
MaxSelected == 3       \* selected items of a generate_retranslate_content call
MaxContextSize == 1    \* context_size of a generate_retranslate_content call

-----------------------------------------------------------------------------
(* Python values.                                                          *)

\* None, where a string is expected (no character is four letters long).
None == <<"None">>

\* The empty dict.
EmptyDict == <<>>

\* d[k] = v on a dict.
DictPut(d, k, v) == [x \in (DOMAIN d) \cup {k} |-> IF x = k THEN v ELSE d[x]]

\* d.get(k, default)
DictGet(d, k, default) == IF k \in DOMAIN d THEN d[k] ELSE default

\* Row numbers are ints or floats; a float is kept in tenths.
IntRN(n) == [kind |-> "int", tenths |-> 10 * n]
FloatRN(t) == [kind |-> "float", tenths |-> t]
NoneRN == [kind |-> "none", tenths |-> 0]

DigitChars == <<"0", "1", "2", "3", "4", "5", "6", "7", "8", "9">>

RECURSIVE StrNat(_)
\* str(n) of a non-negative int
StrNat(n) == IF n < 10 THEN <<DigitChars[n + 1]>>
             ELSE StrNat(n \div 10) \o <<DigitChars[(n % 10) + 1]>>

\* str(row_number): "3" for the int 3, "3.0" for the float 3.0, "None" for None
Str(rn) ==
    CASE rn.kind = "int" -> StrNat(rn.tenths \div 10)
      [] rn.kind = "float" -> StrNat(rn.tenths \div 10) \o <<".">> \o StrNat(rn.tenths % 10)
      [] OTHER -> <<"N", "o", "n", "e">>

\* float(row_number), in tenths
Float(rn) == rn.tenths

Falsy(s) == s = None \/ s = <<>>

-----------------------------------------------------------------------------
(* Python strings: sequences of one-character strings.                     *)

\* The characters str.strip() and str.isspace() take for whitespace.
Whitespace == {" ", "\t", "\n", "\r"}

\* s[i:j] of Python for 0 <= i, with s[i:] as Slice(s, i, Len(s))
Slice(s, i, j) == IF j <= i THEN <<>> ELSE SubSeq(s, i + 1, j)

\* s.startswith(pat, pos) for a 1-based pos
MatchesAt(s, pat, pos) ==
    /\ pos >= 1
    /\ pos + Len(pat) - 1 <= Len(s)
    /\ \A k \in 1..Len(pat) : s[pos + k - 1] = pat[k]

\* s.find(pat): the 0-based index of the first occurrence, -1 when none
Find(s, pat) ==
    LET hits == {i \in 1..(Len(s) + 1) : MatchesAt(s, pat, i)}
    IN  IF hits = {} THEN -1 ELSE (CHOOSE i \in hits : \A j \in hits : i <= j) - 1

\* s.rfind(pat): the 0-based index of the last occurrence, -1 when none
RFind(s, pat) ==
    LET hits == {i \in 1..(Len(s) + 1) : MatchesAt(s, pat, i)}
    IN  IF hits = {} THEN -1 ELSE (CHOOSE i \in hits : \A j \in hits : i >= j) - 1

RECURSIVE ReplaceFrom(_, _, _, _)
ReplaceFrom(s, pat, rep, pos) ==
    IF pos > Len(s) THEN <<>>
    ELSE IF MatchesAt(s, pat, pos)
    THEN rep \o ReplaceFrom(s, pat, rep, pos + Len(pat))
    ELSE <<s[pos]>> \o ReplaceFrom(s, pat, rep, pos + 1)

\* s.replace(pat, rep) for a non-empty pat
Replace(s, pat, rep) == ReplaceFrom(s, pat, rep, 1)

Amp == <<"&">>
Lt == <<"<">>
Gt == <<">">>
AmpEntity == <<"&", "a", "m", "p", ";">>
LtEntity == <<"&", "l", "t", ";">>
GtEntity == <<"&", "g", "t", ";">>

\* xml.sax.saxutils.escape(data)
Escape(data) == Replace(Replace(Replace(data, Amp, AmpEntity), Gt, GtEntity), Lt, LtEntity)

\* xml.sax.saxutils.unescape(data)
Unescape(data) == Replace(Replace(Replace(data, LtEntity, Lt), GtEntity, Gt), AmpEntity, Amp)

\* s.strip()
Strip(s) ==
    LET keep == {i \in 1..Len(s) : s[i] \notin Whitespace}
    IN  IF keep = {} THEN <<>>
        ELSE SubSeq(s, CHOOSE i \in keep : \A j \in keep : i <= j,
                       CHOOSE i \in keep : \A j \in keep : i >= j)

\* s.isspace()
IsSpace(s) == Len(s) > 0 /\ \A i \in 1..Len(s) : s[i] \in Whitespace

UpperToLower == ("C" :> "c") @@ ("H" :> "h") @@ ("T" :> "t") @@ ("Y" :> "y")

\* s.lower()
Lower(s) == [i \in 1..Len(s) |-> IF s[i] \in DOMAIN UpperToLower THEN UpperToLower[s[i]] ELSE s[i]]

\* The positions where a line terminator of s ends: a "\n", or a "\r" that no
\* "\n" follows ("\r\n" is one terminator).
LineEnds(s) ==
    {i \in 1..Len(s) : \/ s[i] = "\n"
                       \/ s[i] = "\r" /\ ~(i < Len(s) /\ s[i + 1] = "\n")}

\* the j-th line end of s, 0 for j = 0
LineEnd(s, j) ==
    IF j = 0 THEN 0
    ELSE CHOOSE e \in LineEnds(s) : Cardinality({x \in LineEnds(s) : x <= e}) = j

\* the position where the terminator that ends at e begins
TerminatorStart(s, e) ==
    IF s[e] = "\n" /\ e > 1 /\ s[e - 1] = "\r" THEN e - 1 ELSE e

\* s.splitlines(): the lines without their terminators; what follows the last
\* terminator is a line when it is not empty
SplitLines(s) ==
    LET m == Cardinality(LineEnds(s))
        tail == IF LineEnd(s, m) < Len(s) THEN <<SubSeq(s, LineEnd(s, m) + 1, Len(s))>>
                ELSE <<>>
    IN  [j \in 1..m |-> SubSeq(s, LineEnd(s, j - 1) + 1, TerminatorStart(s, LineEnd(s, j)) - 1)]
        \o tail

Digits == {"0", "1", "2", "3", "4", "5", "6", "7", "8", "9"}

\* The length of the run of digits of s that starts at pos (\d+, greedy).
DigitRun(s, pos) ==
    LET stops == {i \in pos..(Len(s) + 1) : i > Len(s) \/ s[i] \notin Digits}
    IN  (CHOOSE i \in stops : \A j \in stops : i <= j) - pos

-----------------------------------------------------------------------------
(* ProjectModel (the rows) and ProfileManager.                             *)

\* One OCR result ("row") of the ProjectModel.
Row(f, rn, t, tr, del) ==
    [filename |-> f, row_number |-> rn, text |-> t, translations |-> tr,
     is_deleted |-> del]

\* Signals of ProfileManager.
SigProfilesUpdated == <<"profiles_updated", "">>
SigActiveProfileChanged == <<"active_profile_changed", "">>
SigEditProfileCreated(name) == <<"edit_profile_created", name>>

\* profile_data[filename][row_number] = text, creating the filename entry
PutRow(pdata, f, r, t) == DictPut(pdata, f, DictPut(DictGet(pdata, f, EmptyDict), r, t))

\* The loop body without the translations of the result (mutant).
LoadRowTextOnly(profs, result) ==
    LET filename == result.filename
        row_number == Str(result.row_number)
    IN  IF Falsy(filename) \/ Falsy(row_number) THEN profs
        ELSE DictPut(profs, "Original",
                     PutRow(profs["Original"], filename, row_number, result.text))

\* The body of load_from_results' loop for one result.
LoadRow(profs, result) ==
    LET filename == result.filename
        row_number == Str(result.row_number)
    IN  IF Falsy(filename) \/ Falsy(row_number) THEN profs
        ELSE LET base == DictPut(profs, "Original",
                                 PutRow(profs["Original"], filename, row_number, result.text))
                 tr == result.translations
             IN  [p \in (DOMAIN base) \cup (DOMAIN tr) |->
                    IF p \in DOMAIN tr
                    THEN PutRow(DictGet(base, p, EmptyDict), filename, row_number, tr[p])
                    ELSE base[p]]

RECURSIVE LoadRows(_, _, _)
LoadRows(profs, rows, i) ==
    IF i > Len(rows) THEN profs ELSE LoadRows(LoadRow(profs, rows[i]), rows, i + 1)

\* load_from_results adding to the profiles it finds instead of resetting
\* them (mutant)
LoadFromResultsKeeping(rows) ==
    LoadRows(("Original" :> EmptyDict) @@ profiles, rows, 1)

\* load_from_results(ocr_results): the profiles it builds
LoadFromResults(rows) == LoadRows(("Original" :> EmptyDict), rows, 1)

\* f"{base_name} ({counter})"
SuffixedName(base_name, counter) == base_name \o " (" \o ToString(counter) \o ")"

RECURSIVE UniqueProfileName(_, _, _, _)
\* add_profile's while loop
UniqueProfileName(profs, base_name, profile_name, counter) ==
    IF profile_name \in DOMAIN profs
    THEN UniqueProfileName(profs, base_name, SuffixedName(base_name, counter), counter + 1)
    ELSE profile_name

\* add_profile storing the data under the name it was given (mutant)
AddProfileOverwriting(profs, profile_name, data) == DictPut(profs, profile_name, data)

\* add_profile(profile_name, data): the profiles afterwards
AddProfileTo(profs, profile_name, data) ==
    DictPut(profs, UniqueProfileName(profs, profile_name, profile_name, 1), data)

\* switch_active_profile without the test that the profile exists (mutant)
SwitchActiveUnchecked(profs, act, profile_name) ==
    IF profile_name # act
    THEN [active |-> profile_name, emitted |-> <<SigActiveProfileChanged>>]
    ELSE [active |-> act, emitted |-> <<>>]

\* switch_active_profile(profile_name): the new active name and the signals
SwitchActive(profs, act, profile_name) ==
    IF profile_name \in DOMAIN profs /\ profile_name # act
    THEN [active |-> profile_name, emitted |-> <<SigActiveProfileChanged>>]
    ELSE [active |-> act, emitted |-> <<>>]

\* get_display_text without the fallback to "Original" (mutant)
GetDisplayTextNoFallback(profs, act, result) ==
    DictGet(DictGet(DictGet(profs, act, EmptyDict), result.filename, EmptyDict),
            Str(result.row_number), <<>>)

\* get_display_text(result)
GetDisplayText(profs, act, result) ==
    LET filename == result.filename
        row_number == Str(result.row_number)
        profile_data == DictGet(profs, act, EmptyDict)
        text == DictGet(DictGet(profile_data, filename, EmptyDict), row_number, None)
    IN  IF text # None THEN text
        ELSE DictGet(DictGet(DictGet(profs, "Original", EmptyDict), filename, EmptyDict),
                     row_number, <<>>)

\* f"User Edit {i}"
UserEditName(i) == "User Edit " \o ToString(i)

RECURSIVE FirstFreeUserEdit(_, _)
\* the while loop of _ensure_user_edit_profile_exists
FirstFreeUserEdit(profs, i) ==
    IF UserEditName(i) \in DOMAIN profs THEN FirstFreeUserEdit(profs, i + 1) ELSE i

\* _ensure_user_edit_profile_exists forking whatever profile is active (mutant)
EnsureAlwaysForks(profs, act) ==
    IF "Original" \notin DOMAIN profs
    THEN [profiles |-> profs, active |-> act, target |-> "", emitted |-> <<>>,
          raised |-> TRUE]
    ELSE LET new_profile_name == UserEditName(FirstFreeUserEdit(profs, 1))
             profs2 == DictPut(profs, new_profile_name, profs["Original"])
             sw == SwitchActive(profs2, act, new_profile_name)
         IN  [profiles |-> profs2, active |-> sw.active, target |-> new_profile_name,
              emitted |-> sw.emitted \o <<SigProfilesUpdated,
                                         SigEditProfileCreated(new_profile_name)>>,
              raised |-> FALSE]

\* _ensure_user_edit_profile_exists emitting edit_profile_created before it
\* switches the active profile (mutant)
EnsureAnnouncesBeforeSwitch(profs, act) ==
    IF act # "Original"
    THEN [profiles |-> profs, active |-> act, target |-> act, emitted |-> <<>>,
          raised |-> FALSE]
    ELSE IF "Original" \notin DOMAIN profs
    THEN [profiles |-> profs, active |-> act, target |-> "", emitted |-> <<>>,
          raised |-> TRUE]
    ELSE LET new_profile_name == UserEditName(FirstFreeUserEdit(profs, 1))
             profs2 == DictPut(profs, new_profile_name, profs["Original"])
             sw == SwitchActive(profs2, act, new_profile_name)
         IN  [profiles |-> profs2, active |-> sw.active, target |-> new_profile_name,
              emitted |-> <<SigEditProfileCreated(new_profile_name)>> \o sw.emitted
                          \o <<SigProfilesUpdated>>,
              raised |-> FALSE]

\* _ensure_user_edit_profile_exists(): profiles, active name, returned name,
\* signals; raised when self.profiles["Original"] is a KeyError
EnsureUserEditProfileExists(profs, act) ==
    IF act # "Original"
    THEN [profiles |-> profs, active |-> act, target |-> act, emitted |-> <<>>,
          raised |-> FALSE]
    ELSE IF "Original" \notin DOMAIN profs
    THEN [profiles |-> profs, active |-> act, target |-> "", emitted |-> <<>>,
          raised |-> TRUE]
    ELSE LET new_profile_name == UserEditName(FirstFreeUserEdit(profs, 1))
             profs2 == DictPut(profs, new_profile_name, profs["Original"])
             sw == SwitchActive(profs2, act, new_profile_name)
         IN  [profiles |-> profs2, active |-> sw.active, target |-> new_profile_name,
              emitted |-> sw.emitted \o <<SigProfilesUpdated,
                                         SigEditProfileCreated(new_profile_name)>>,
              raised |-> FALSE]

\* ProjectModel._find_result_by_row_number(row_number): the index of the row
\* with that number, 0 when there is none
FindResultByRowNumber(rows, rn) ==
    LET hits == {i \in 1..Len(rows) : rows[i].row_number.kind # "none"
                                      /\ rn.kind # "none"
                                      /\ Float(rows[i].row_number) = Float(rn)}
    IN  IF hits = {} THEN 0 ELSE CHOOSE i \in hits : \A j \in hits : i <= j

\* The write of update_text and combine_rows into the target profile.
WriteText(profs, target_profile_name, result, new_text) ==
    LET filename == result.filename
        row_str == Str(result.row_number)
    IN  IF filename \in DOMAIN profs[target_profile_name]
        THEN DictPut(profs, target_profile_name,
                     DictPut(profs[target_profile_name], filename,
                             DictPut(profs[target_profile_name][filename], row_str, new_text)))
        ELSE profs

\* update_text writing into the profile that was active when it was called (mutant)
UpdateTextIntoActive(rows, profs, act, row_number, new_text) ==
    LET e == EnsureUserEditProfileExists(profs, act)
        idx == FindResultByRowNumber(rows, row_number)
    IN  IF e.raised THEN e
        ELSE IF idx = 0 THEN e
        ELSE [e EXCEPT !.profiles = WriteText(e.profiles, act, rows[idx], new_text)]

\* update_text(row_number, new_text): the state it leaves
UpdateTextOp(rows, profs, act, row_number, new_text) ==
    LET e == EnsureUserEditProfileExists(profs, act)
        idx == FindResultByRowNumber(rows, row_number)
    IN  IF e.raised THEN e
        ELSE IF idx = 0 THEN e
        ELSE [e EXCEPT !.profiles = WriteText(e.profiles, e.target, rows[idx], new_text)]

\* combine_rows(first_row_number, combined_text): the state it leaves
CombineRowsOp(rows, profs, act, first_row_number, combined_text) ==
    LET e == EnsureUserEditProfileExists(profs, act)
        idx == FindResultByRowNumber(rows, first_row_number)
    IN  IF e.raised THEN e
        ELSE IF idx = 0 THEN e
        ELSE [e EXCEPT !.profiles = WriteText(e.profiles, e.target, rows[idx], combined_text)]

RECURSIVE SaveRows(_, _, _, _, _)
\* lines 168-172: the rows of one filename of one profile, those in todo left
SaveRows(translations_by_key, profile_name, filename, rows, todo) ==
    IF todo = {} THEN translations_by_key
    ELSE LET row_number == CHOOSE r \in todo : TRUE
             key == <<filename, row_number>>
         IN  SaveRows(DictPut(translations_by_key, key,
                              DictPut(DictGet(translations_by_key, key, EmptyDict),
                                      profile_name, rows[row_number])),
                      profile_name, filename, rows, todo \ {row_number})

RECURSIVE SaveFiles(_, _, _, _)
\* lines 167-172: the filenames of one profile, those in todo left
SaveFiles(translations_by_key, profile_name, profile_data, todo) ==
    IF todo = {} THEN translations_by_key
    ELSE LET filename == CHOOSE f \in todo : TRUE
         IN  SaveFiles(SaveRows(translations_by_key, profile_name, filename,
                                profile_data[filename], DOMAIN profile_data[filename]),
                       profile_name, profile_data, todo \ {filename})

RECURSIVE SaveProfiles(_, _, _, _)
\* lines 164-172: the profiles in todo left; skip tells whether "Original" is
\* passed over
SaveProfiles(translations_by_key, profs, todo, skip) ==
    IF todo = {} THEN translations_by_key
    ELSE LET profile_name == CHOOSE n \in todo : TRUE
         IN  SaveProfiles(IF skip /\ profile_name = "Original" THEN translations_by_key
                          ELSE SaveFiles(translations_by_key, profile_name,
                                         profs[profile_name], DOMAIN profs[profile_name]),
                          profs, todo \ {profile_name}, skip)

\* "Original" is saved like every other profile.
GetTranslationsForSaveWithOriginal(profs) ==
    SaveProfiles(EmptyDict, profs, DOMAIN profs, FALSE)

\* get_translations_for_save(): {(filename, row_number): {profile: text}}; the
\* row keys of a profile are strings, which str() leaves as they are
GetTranslationsForSave(profs) ==
    SaveProfiles(EmptyDict, profs, DOMAIN profs, TRUE)

-----------------------------------------------------------------------------
(* Inputs of the ProfileManager runs.                                      *)

FileP1 == <<"p", "1">>
FileP2 == <<"p", "2">>

\* The rows a ProjectModel is built from (any sub-list, in this order).
PoolRows ==
    << Row(FileP1, IntRN(1), <<"a">>, EmptyDict, FALSE),
       Row(FileP1, IntRN(2), <<"b">>, ("User Edit 1" :> <<"c">>), FALSE),
       Row(FileP2, FloatRN(35), <<"a">>, ("T" :> <<"d">> @@ "T (1)" :> <<"d">>), FALSE),
       Row(None, IntRN(4), <<"e">>, ("Z" :> <<"q">>), FALSE),
       Row(FileP1, NoneRN, <<"n">>, EmptyDict, FALSE) >>

RECURSIVE SubList(_, _, _)
\* the rows of seq at the indices in S, in order
SubList(seq, S, i) ==
    IF i > Len(seq) THEN <<>>
    ELSE (IF i \in S THEN <<seq[i]>> ELSE <<>>) \o SubList(seq, S, i + 1)

ModelRowLists ==
    {SubList(PoolRows, S, 1) : S \in {T \in SUBSET (1..Len(PoolRows)) :
                                        Cardinality(T) <= MaxModelRows}}

\* Row numbers a caller passes (9 is the number of no row).
CallRowNumbers == {IntRN(1), IntRN(2), FloatRN(35), IntRN(9)}

\* Texts a caller passes to update_text and to combine_rows.
EditTexts == {<<"x">>}

\* Profile names a caller passes.
CallProfileNames == {"Original", "User Edit 1", "T", "Nope"}

\* Names and data of add_profile calls.
AddNames == {"T", "Original"}
AddDatas == {(FileP1 :> (<<"1">> :> <<"t">>))}

\* Rows get_display_text is asked about: the model's rows and a foreign one.
DisplayRows(rows) ==
    {rows[i] : i \in 1..Len(rows)} \cup {Row(FileP2, IntRN(1), <<"z">>, EmptyDict, FALSE)}

-----------------------------------------------------------------------------
(* History of calls (for the properties only).                             *)

\* The call that produced content: its name and arguments.
ExportCall(fn, rows, profile, selected, context_size) ==
    [fn |-> fn, rows |-> rows, profile |-> profile, selected |-> selected,
     context_size |-> context_size]

NoExport == ExportCall("", <<>>, "", <<>>, 0)

\* A _filter_and_merge_results call: its argument, whether it called
\* group_and_merge_text and with what, and what it returned.
ManualCall(raw, merged, handed, returned) ==
    [raw_results |-> raw, merged |-> merged, handed |-> handed, returned |-> returned]

NoManualCall == ManualCall(<<>>, FALSE, <<>>, <<>>)

\* a mode handler: its is_active and its active_label
Handler(is_active, active_label) == [is_active |-> is_active, active_label |-> active_label]

\* the handler call that ran last and the handlers before it (history)
ModeCall(op, checked, label_widget, manual, fill) ==
    [op |-> op, checked |-> checked, label_widget |-> label_widget,
     manual |-> manual, fill |-> fill]

NoModeCall == ModeCall("", FALSE, None, Handler(FALSE, None), Handler(FALSE, None))

\* a _find_update_path call: its manifest and arguments, the path it
\* returned and whether it raised (history)
PathCall(called, manifest, start_version, end_version, path, raised_error) ==
    [called |-> called, manifest |-> manifest, start_version |-> start_version,
     end_version |-> end_version, path |-> path, raised |-> raised_error]

NoPathCall == PathCall(FALSE, [versions |-> {}, packages |-> <<>>], None, None, <<>>, FALSE)

\* a release of the GitHub API: its tag_name (None: no tag) and whether its
\* assets hold a manifest.json with a browser_download_url
Release(tag_name, has_manifest) == [tag_name |-> tag_name, has_manifest |-> has_manifest]

\* latest_release_data = None; a stored release always has a tag
NoRelease == Release(None, FALSE)

\* self.manifest before a manifest was received
NoManifest == [versions |-> {}, packages |-> <<>>]

\* update_temp_dir on disk: whether it exists, whether it holds
\* manifest.json, the package files written to the end and the package
\* files opened for writing and not written to the end
Dir(exists, manifest_json, files, partial) ==
    [exists |-> exists, manifest_json |-> manifest_json, files |-> files, partial |-> partial]

NoDir == Dir(FALSE, FALSE, {}, {})

\* a step of the UpdateHandler: the method, what the reply was, and the
\* tag_name of the release of a reply (None: none)
UpdateStep(op, outcome, tag_name) == [op |-> op, outcome |-> outcome, tag_name |-> tag_name]

NoUpdateStep == UpdateStep("", "", None)

\* manifest["patch"]: whether the key is there, and its entries
PatchInfo(present, file, patch_file, old_sha256) ==
    [present |-> present, file |-> file, patch_file |-> patch_file,
     old_sha256 |-> old_sha256]

NoPatch == PatchInfo(FALSE, <<>>, <<>>, <<>>)

\* the manifest.json of the updater: "patch", "files" (relative path to
\* SHA-256) and "_removed_files"
WorkerManifest(patch, files, removed_files) ==
    [patch |-> patch, files |-> files, removed_files |-> removed_files]

NoWorkerManifest == WorkerManifest(NoPatch, EmptyDict, <<>>)

NoKey == <<None, None>>

\* The key an edit call resolves to, NoKey when the row is unknown.
EditKey(rows, rn) ==
    LET idx == FindResultByRowNumber(rows, rn)
    IN  IF idx = 0 THEN NoKey ELSE <<rows[idx].filename, Str(rows[idx].row_number)>>

\* The last call: its name, whether the model resolved its row, and the key.
Call(op, resolved, key) == [op |-> op, resolved |-> resolved, key |-> key]

NoCall == Call("", FALSE, NoKey)

\* A call that takes a profile name: its name and that argument.
CallNamed(op, name) == [op |-> op, resolved |-> FALSE, key |-> NoKey, name |-> name]

\* streak.n counts the consecutive update_text calls on known rows (1, then 2)
\* that began with "Original" loaded and active; preNames are the profile
\* names when the first began, touched the keys the calls wrote.
NoStreak == [n |-> 0, preNames |-> {}, touched |-> {}]

\* After load_from_results: the profile names the call found (n stays 0).
StreakAfterLoad == [n |-> 0, preNames |-> DOMAIN profiles, touched |-> {}]

StreakAfterUpdate(resolved, key) ==
    IF ~resolved THEN NoStreak
    ELSE IF streak.n = 1
    THEN [streak EXCEPT !.n = 2, !.touched = @ \cup {key}]
    ELSE IF active_profile_name = "Original" /\ "Original" \in DOMAIN profiles
    THEN [n |-> 1, preNames |-> DOMAIN profiles, touched |-> {key}]
    ELSE NoStreak

-----------------------------------------------------------------------------
(* The calls on a ProfileManager.                                          *)

\* ProfileManager(model): __init__
InitPM ==
    /\ ocr_results \in ModelRowLists
    /\ profiles = EmptyDict
    /\ active_profile_name = "Original"
    /\ emitted = <<>>
    /\ raised = FALSE
    /\ ret = None
    /\ last = NoCall
    /\ streak = NoStreak
    /\ exp_call = NoExport
    /\ exp_lines = <<>>
    /\ content = <<>>
    /\ imp_pc = "idle"
    /\ imp_lines = <<>>
    /\ imp_idx = 0
    /\ translations = EmptyDict
    /\ current_filename = None
    /\ min_text_height = 0
    /\ max_text_height = 0
    /\ min_confidence = 0
    /\ auto_context_fill = FALSE
    /\ stop_requested = FALSE
    /\ ocr_pc = "none"
    /\ was_resized = FALSE
    /\ scaled_results = <<>>
    /\ filter_i = 0
    /\ filtered_results = <<>>
    /\ merged_results = <<>>
    /\ ocr_signals = <<>>
    /\ merge_calls = <<>>
    /\ stop_seen_at = ""
    /\ manual_call = NoManualCall
    /\ is_running = TRUE
    /\ tt_pc = "none"
    /\ response_stream = <<>>
    /\ full_response_text = <<>>
    /\ tt_signals = <<>>
    /\ stopped_at = ""
    /\ manual_ocr_handler = Handler(FALSE, None)
    /\ context_fill_handler = Handler(FALSE, None)
    /\ mode_last = NoModeCall
    /\ selection_paths = <<>>
    /\ btn_process_fill = FALSE
    /\ btn_reset_selection = FALSE
    /\ selected_since_reset = {}
    /\ last_rect = {}
    /\ path_call = NoPathCall
    /\ app_version = <<>>
    /\ latest_release_data = NoRelease
    /\ up_pc = "idle"
    /\ manifest_data = NoManifest
    /\ update_path = <<>>
    /\ download_queue = <<>>
    /\ downloaded_files = <<>>
    /\ downloaded_update_dir = FALSE
    /\ update_temp_dir = NoDir
    /\ up_signals = <<>>
    /\ up_last = NoUpdateStep
    /\ attempt = "none"
    /\ fetched = <<>>
    /\ dir_open = FALSE
    /\ existing_ret = None
    /\ worker_pc = "none"
    /\ install_disk = EmptyDict
    /\ extract_path = EmptyDict
    /\ worker_manifest = NoWorkerManifest
    /\ locked_files = {}
    /\ worker_error = ""
    /\ disk_before = EmptyDict
    /\ extract_before = EmptyDict

\* The bound on the number of profiles leaves room for one more.
RoomForProfile ==
    Cardinality(DOMAIN profiles)
        < MaxNewProfiles + (IF "Original" \in DOMAIN profiles
                            THEN Cardinality(DOMAIN LoadFromResults(ocr_results))
                            ELSE 0)

\* A fork would exceed the bound on the number of profiles.
ForkOverBound ==
    /\ active_profile_name = "Original"
    /\ "Original" \in DOMAIN profiles
    /\ ~RoomForProfile

\* profile_manager.load_from_results(model.ocr_results)
LoadFromResultsCall ==
    /\ profiles' = LoadFromResults(ocr_results)
    /\ active_profile_name' = "Original"
    /\ emitted' = <<SigProfilesUpdated>>
    /\ raised' = FALSE
    /\ ret' = None
    /\ last' = Call("load_from_results", FALSE, NoKey)
    /\ streak' = StreakAfterLoad
    /\ UNCHANGED ocr_results
    /\ UNCHANGED <<codecVars, appVars>>

AddProfileCall ==
    \E name \in AddNames, data \in AddDatas :
        /\ RoomForProfile
        /\ profiles' = AddProfileTo(profiles, name, data)
        /\ emitted' = <<SigProfilesUpdated>>
        /\ raised' = FALSE
        /\ ret' = None
        /\ last' = Call("add_profile", FALSE, NoKey)
        /\ streak' = NoStreak
        /\ UNCHANGED <<ocr_results, active_profile_name>>
        /\ UNCHANGED <<codecVars, appVars>>

SwitchActiveProfileCall ==
    \E name \in CallProfileNames :
        LET sw == SwitchActive(profiles, active_profile_name, name)
        IN  /\ active_profile_name' = sw.active
            /\ emitted' = sw.emitted
            /\ raised' = FALSE
            /\ ret' = None
            /\ last' = CallNamed("switch_active_profile", name)
            /\ streak' = NoStreak
            /\ UNCHANGED <<ocr_results, profiles>>
            /\ UNCHANGED <<codecVars, appVars>>

GetDisplayTextCall ==
    \E result \in DisplayRows(ocr_results) :
        /\ ret' = GetDisplayText(profiles, active_profile_name, result)
        /\ emitted' = <<>>
        /\ raised' = FALSE
        /\ last' = Call("get_display_text", TRUE,
                        <<result.filename, Str(result.row_number)>>)
        /\ streak' = NoStreak
        /\ UNCHANGED <<ocr_results, profiles, active_profile_name>>
        /\ UNCHANGED <<codecVars, appVars>>

UpdateTextCall ==
    \E rn \in CallRowNumbers, new_text \in EditTexts :
        LET r == UpdateTextOp(ocr_results, profiles, active_profile_name, rn, new_text)
            resolved == FindResultByRowNumber(ocr_results, rn) # 0
        IN  /\ ~ForkOverBound
            /\ profiles' = r.profiles
            /\ active_profile_name' = r.active
            /\ emitted' = r.emitted
            /\ raised' = r.raised
            /\ ret' = None
            /\ last' = Call("update_text", resolved, EditKey(ocr_results, rn))
            /\ streak' = StreakAfterUpdate(resolved, EditKey(ocr_results, rn))
            /\ UNCHANGED ocr_results
            /\ UNCHANGED <<codecVars, appVars>>

\* profile_manager.get_translations_for_save()
GetTranslationsForSaveCall ==
    /\ ret' = GetTranslationsForSave(profiles)
    /\ emitted' = <<>>
    /\ raised' = FALSE
    /\ last' = Call("get_translations_for_save", FALSE, NoKey)
    /\ streak' = NoStreak
    /\ UNCHANGED <<ocr_results, profiles, active_profile_name>>
    /\ UNCHANGED <<codecVars, appVars>>

CombineRowsCall ==
    \E rn \in CallRowNumbers, combined_text \in EditTexts :
        LET r == CombineRowsOp(ocr_results, profiles, active_profile_name, rn, combined_text)
            resolved == FindResultByRowNumber(ocr_results, rn) # 0
        IN  /\ ~ForkOverBound
            /\ profiles' = r.profiles
            /\ active_profile_name' = r.active
            /\ emitted' = r.emitted
            /\ raised' = r.raised
            /\ ret' = None
            /\ last' = Call("combine_rows", resolved, EditKey(ocr_results, rn))
            /\ streak' = NoStreak
            /\ UNCHANGED ocr_results
            /\ UNCHANGED <<codecVars, appVars>>

PMNext ==
    \/ LoadFromResultsCall
    \/ AddProfileCall
    \/ SwitchActiveProfileCall
    \/ GetDisplayTextCall
    \/ UpdateTextCall
    \/ CombineRowsCall
    \/ GetTranslationsForSaveCall

SpecPM == InitPM /\ [][PMNext]_vars

-----------------------------------------------------------------------------
(* translations.py: import_translation_file_content.                       *)

NoMatch == [ok |-> FALSE, group |-> <<>>, end |-> 0]

\* row_tag_pattern.match(line) for r'<(?P<rownum>\d+(\.\d+)?)>': the group
\* rownum and match.end()
RowTagMatch(line) ==
    IF Len(line) < 3 \/ line[1] # "<" \/ DigitRun(line, 2) = 0 THEN NoMatch
    ELSE LET p == 2 + DigitRun(line, 2)
         IN  IF p <= Len(line) /\ line[p] = ">"
             THEN [ok |-> TRUE, group |-> SubSeq(line, 2, p - 1), end |-> p]
             ELSE IF p <= Len(line) /\ line[p] = "." /\ DigitRun(line, p + 1) > 0
             THEN LET q == p + 1 + DigitRun(line, p + 1)
                  IN  IF q <= Len(line) /\ line[q] = ">"
                      THEN [ok |-> TRUE, group |-> SubSeq(line, 2, q - 1), end |-> q]
                      ELSE NoMatch
             ELSE NoMatch

\* file_tag_pattern.match(line) for r'<(?P<name>[^/][^>]+)>': the group name
FileTagMatch(line) ==
    IF Len(line) < 4 \/ line[1] # "<" \/ line[2] = "/" \/ line[3] = ">" THEN NoMatch
    ELSE LET closes == {j \in 4..Len(line) : line[j] = ">"}
         IN  IF closes = {} THEN NoMatch
             ELSE LET j == CHOOSE c \in closes : \A d \in closes : c <= d
                  IN  [ok |-> TRUE, group |-> SubSeq(line, 2, j - 1), end |-> j]

TranslateOpen == <<"<", "t", "r", "a", "n", "s", "l", "a", "t", "e", ">">>
TranslateClose == <<"<", "/", "t", "r", "a", "n", "s", "l", "a", "t", "e", ">">>

\* (?:</translate>)? at pos: an optional group matches at every position,
\* the closing tag when it is there and the empty string otherwise.
OptionalCloseMatchesAt(s, pos) ==
    MatchesAt(Lower(s), TranslateClose, pos) \/ TRUE

\* translate_pattern.search(s) for r'<translate>(.*?)(?:</translate>)?' with
\* DOTALL and IGNORECASE: group 1.  The lazy (.*?) takes the fewest characters
\* after which the rest of the pattern matches.
TranslateSearch(s) ==
    LET at == Find(Lower(s), TranslateOpen)
    IN  IF at = -1 THEN NoMatch
        ELSE LET start == at + Len(TranslateOpen) + 1
                 lens == {n \in 0..(Len(s) - start + 1) : OptionalCloseMatchesAt(s, start + n)}
                 n == CHOOSE m \in lens : \A k \in lens : m <= k
             IN  [ok |-> TRUE, group |-> SubSeq(s, start, start + n - 1), end |-> start + n - 1]

ReservedNames ==
    { <<"t", "r", "a", "n", "s", "l", "a", "t", "i", "o", "n", "s">>,
      <<"t", "r", "a", "n", "s", "l", "a", "t", "e">>,
      <<"c", "o", "n", "t", "e", "x", "t">>,
      <<"r", "e", "-", "t", "r", "a", "n", "s", "l", "a", "t", "i", "o", "n">> }

\* Only the lower-case spelling is structural.
IsStructuralNameExactly(potential_filename) == potential_filename \in ReservedNames

\* the test of line 249, negated
IsStructuralName(potential_filename) == Lower(potential_filename) \in ReservedNames

\* A row line without its closing tag records nothing.
RowLineTextNeedingClose(line, row_match) ==
    LET closing_tag == <<"<", "/">> \o row_match.group \o <<">">>
        content_end == RFind(line, closing_tag)
    IN  IF content_end = -1 THEN <<>>
        ELSE Strip(Unescape(Slice(line, row_match.end, content_end)))

\* The text a row line records: the content of the row tag, narrowed to the
\* <translate> tag when there is one, unescaped and stripped.
RowLineText(line, row_match) ==
    LET row_number == row_match.group
        content_start == row_match.end
        closing_tag == <<"<", "/">> \o row_number \o <<">">>
        content_end == RFind(line, closing_tag)
        line_content == IF content_end # -1 THEN Slice(line, content_start, content_end)
                        ELSE Slice(line, content_start, Len(line))
        text_inside_translate == TranslateSearch(line_content)
        translated_text == IF text_inside_translate.ok THEN text_inside_translate.group
                           ELSE line_content
    IN  Strip(Unescape(translated_text))

\* One pass of the loop with a file branch that sets current_filename and
\* leaves the entry of a new filename to the first row.
ImportStepWithoutEntry(trans, cur, raw_line) ==
    LET line == Strip(raw_line)
        row_match == RowTagMatch(line)
        file_match == FileTagMatch(line)
    IN  IF line # <<>> /\ row_match.ok /\ ~Falsy(cur)
        THEN [translations |-> trans, current_filename |-> cur,
              raised |-> cur \notin DOMAIN trans]
        ELSE IF line # <<>> /\ file_match.ok /\ ~IsStructuralName(file_match.group)
        THEN [translations |-> trans, current_filename |-> Unescape(file_match.group),
              raised |-> FALSE]
        ELSE [translations |-> trans, current_filename |-> cur, raised |-> FALSE]

\* One pass of the loop over content.splitlines(): the translations and the
\* current filename after the line, and whether the pass raised (the
\* subscription translations[current_filename] of line 241 is a KeyError when
\* the filename has no entry).
ImportStep(trans, cur, raw_line) ==
    LET line == Strip(raw_line)
        row_match == RowTagMatch(line)
        file_match == FileTagMatch(line)
        same == [translations |-> trans, current_filename |-> cur, raised |-> FALSE]
    IN  IF line = <<>> THEN same
        ELSE IF row_match.ok /\ ~Falsy(cur)
        THEN LET final_text == RowLineText(line, row_match)
             IN  IF final_text = <<>> THEN same
                 ELSE IF cur \notin DOMAIN trans THEN [same EXCEPT !.raised = TRUE]
                 ELSE [same EXCEPT !.translations =
                          DictPut(trans, cur, DictPut(trans[cur], row_match.group, final_text))]
        ELSE IF file_match.ok /\ ~IsStructuralName(file_match.group)
        THEN LET name == Unescape(file_match.group)
             IN  [translations |-> IF name \notin DOMAIN trans
                                   THEN DictPut(trans, name, EmptyDict) ELSE trans,
                  current_filename |-> name,
                  raised |-> FALSE]
        ELSE same

-----------------------------------------------------------------------------
(* Exchange documents that come back from the external translation step.   *)

\* <f.p>
XFileF == <<"<", "f", ".", "p", ">">>
\* <g.p>
XFileG == <<"<", "g", ".", "p", ">">>
\* <3>Hi there
XRowOpen == <<"<", "3", ">", "H", "i", " ", "t", "h", "e", "r", "e">>
\* <3>Yo</3>
XRowClosed == <<"<", "3", ">", "Y", "o", "<", "/", "3", ">">>
\* <3.5>a &amp; b</3.5>
XRowDecimal == <<"<", "3", ".", "5", ">", "a", " ", "&", "a", "m", "p", ";", " ", "b", "<", "/", "3", ".", "5", ">">>
\* <3><translate>Hi</translate></3>
XRowTranslate == <<"<", "3", ">", "<", "t", "r", "a", "n", "s", "l", "a", "t", "e", ">", "H", "i", "<", "/", "t", "r", "a", "n", "s", "l", "a", "t", "e", ">", "<", "/", "3", ">">>
\* <4><Translate>Yo
XRowTranslateOpen == <<"<", "4", ">", "<", "T", "r", "a", "n", "s", "l", "a", "t", "e", ">", "Y", "o">>
\* </f.p>
XStrayClose == <<"<", "/", "f", ".", "p", ">">>
\* <translations>
XReserved == <<"<", "t", "r", "a", "n", "s", "l", "a", "t", "i", "o", "n", "s", ">">>
\* a line of one space
XBlank == <<" ">>
\* <12>x
XNumericPair == <<"<", "1", "2", ">", "x">>

\* <Context>
XReservedUpper == <<"<", "C", "o", "n", "t", "e", "x", "t", ">">>
\* <g.p
XUnclosed == <<"<", "g", ".", "p">>

ExternalLines ==
    {XFileF, XFileG, XRowOpen, XRowClosed, XRowDecimal, XRowTranslate, XRowTranslateOpen,
     XStrayClose, XReserved, XBlank, XNumericPair, XReservedUpper, XUnclosed}

RECURSIVE JoinLines(_, _)
\* "\n".join(lines[i..])
JoinLines(lines, i) ==
    IF i > Len(lines) THEN <<>>
    ELSE lines[i] \o (IF i < Len(lines) THEN <<"\n">> ELSE <<>>) \o JoinLines(lines, i + 1)

ExternalContents ==
    {JoinLines(ls, 1) : ls \in UNION {[1..n -> ExternalLines] : n \in 0..MaxLines}}

-----------------------------------------------------------------------------
(* translations.py: generate_for_translate_content and                     *)
(* generate_retranslate_content.  The content is built line by line; a     *)
(* line is kept as a record and rendered to characters by RenderLine.      *)

\* _get_text_for_profile_static(result, profile_name)
TextForProfile(result, profile_name) ==
    IF profile_name # "Original" /\ profile_name \in DOMAIN result.translations
    THEN result.translations[profile_name]
    ELSE result.text

TranslationsTag == <<"t", "r", "a", "n", "s", "l", "a", "t", "i", "o", "n", "s">>
ReTranslationTag == <<"r", "e", "-", "t", "r", "a", "n", "s", "l", "a", "t", "i", "o", "n">>
ContextTag == <<"c", "o", "n", "t", "e", "x", "t">>

\* f"<{tag}>\n", f"</{tag}>\n" and f"<{tag}>{body}</{tag}>\n"
OpenLine(tag) == [kind |-> "open", tag |-> tag, body |-> <<>>]
CloseLine(tag) == [kind |-> "close", tag |-> tag, body |-> <<>>]
RowLine(tag, body) == [kind |-> "row", tag |-> tag, body |-> body]

RenderLine(l) ==
    CASE l.kind = "open" -> <<"<">> \o l.tag \o <<">", "\n">>
      [] l.kind = "close" -> <<"<", "/">> \o l.tag \o <<">", "\n">>
      [] OTHER -> <<"<">> \o l.tag \o <<">">> \o l.body \o <<"<", "/">> \o l.tag \o <<">", "\n">>

RECURSIVE RenderLines(_, _)
\* the content: the lines from the i-th on, one after the other
RenderLines(lines, i) ==
    IF i > Len(lines) THEN <<>> ELSE RenderLine(lines[i]) \o RenderLines(lines, i + 1)

RECURSIVE Concat(_, _)
\* the sequences seqs[i], seqs[i+1], ... one after the other
Concat(seqs, i) == IF i > Len(seqs) THEN <<>> ELSE seqs[i] \o Concat(seqs, i + 1)

RECURSIVE KeysInOrder(_, _, _)
\* The keys of a dict filled in the order of names: each name once, in the
\* order of first appearance.
KeysInOrder(names, i, seen) ==
    IF i > Len(names) THEN <<>>
    ELSE IF names[i] \in seen THEN KeysInOrder(names, i + 1, seen)
    ELSE <<names[i]>> \o KeysInOrder(names, i + 1, seen \cup {names[i]})

Filenames(rows) == [i \in 1..Len(rows) |-> rows[i].filename]

\* one step of the stable sort: x goes after the rows whose key is not larger
InsertByRowNumber(sorted, x) ==
    LET n == Cardinality({i \in 1..Len(sorted) :
                            Float(sorted[i].row_number) <= Float(x.row_number)})
    IN  SubSeq(sorted, 1, n) \o <<x>> \o SubSeq(sorted, n + 1, Len(sorted))

RECURSIVE SortFrom(_, _, _)
SortFrom(rows, i, sorted) ==
    IF i > Len(rows) THEN sorted
    ELSE SortFrom(rows, i + 1, InsertByRowNumber(sorted, rows[i]))

\* sorted(rows, key=lambda x: float(row_number)), which is stable
SortedByRowNumber(rows) == SortFrom(rows, 1, <<>>)

\* Deleted rows are kept (mutant).
VisibleResultsWithDeleted(rows) == rows

\* the rows that are not deleted
VisibleResults(rows) == SelectSeq(rows, LAMBDA r : ~r.is_deleted)

\* Blank texts are written too.
IsExportedBlankToo(result, profile_name) ==
    /\ ~Falsy(result.filename)
    /\ TextForProfile(result, profile_name) # <<>>
    /\ result.row_number # NoneRN

\* The test of line 87 of generate_for_translate_content, negated: the row is
\* written.
IsExported(result, profile_name) ==
    LET text == TextForProfile(result, profile_name)
    IN  /\ ~Falsy(result.filename)
        /\ text # <<>>
        /\ result.row_number # NoneRN
        /\ ~IsSpace(text)

\* the lines of one filename wrapper of generate_for_translate_content
FileLines(kept, filename, profile_name) ==
    LET texts_with_rows == SortedByRowNumber(SelectSeq(kept, LAMBDA r : r.filename = filename))
    IN  <<OpenLine(Escape(filename))>>
        \o [k \in 1..Len(texts_with_rows) |->
              RowLine(Str(texts_with_rows[k].row_number),
                      Escape(TextForProfile(texts_with_rows[k], profile_name)))]
        \o <<CloseLine(Escape(filename))>>

\* generate_for_translate_content(ocr_results, source_profile_name): the lines
GenerateForTranslate(rows, profile_name) ==
    LET kept == SelectSeq(VisibleResults(rows), LAMBDA r : IsExported(r, profile_name))
        files == KeysInOrder(Filenames(kept), 1, {})
    IN  <<OpenLine(TranslationsTag)>>
        \o Concat([k \in 1..Len(files) |-> FileLines(kept, files[k], profile_name)], 1)
        \o <<CloseLine(TranslationsTag)>>

Max2(a, b) == IF a >= b THEN a ELSE b
Min2(a, b) == IF a <= b THEN a ELSE b

RECURSIVE SortedSeq(_)
\* sorted(S) for a set of ints
SortedSeq(S) ==
    IF S = {} THEN <<>>
    ELSE LET m == CHOOSE x \in S : \A y \in S : x <= y
         IN  <<m>> \o SortedSeq(S \ {m})

\* row_num_to_idx.get(r, -1): the 0-based index of the row whose str(row_number)
\* is r; the dict comprehension keeps the last index of a string
RowNumToIdx(file_results, r) ==
    LET hits == {i \in 1..Len(file_results) : Str(file_results[i].row_number) = r}
    IN  IF hits = {} THEN -1 ELSE (CHOOSE i \in hits : \A j \in hits : i >= j) - 1

\* selected_indices of one file (the selections of this model name no row
\* twice, so the sorted list has no index twice)
SelectedIndices(file_results, filename, selected_items) ==
    SortedSeq({RowNumToIdx(file_results, selected_items[k][2]) :
                  k \in {j \in 1..Len(selected_items) : selected_items[j][1] = filename}}
              \ {-1})

\* A window that ends where the next begins is not yet merged.
WindowsOverlapStrictly(prev_idx, current_idx, context_size) ==
    (current_idx - context_size) < (prev_idx + context_size)

\* Every selected index opens a group of its own.
WindowsNeverMerged(prev_idx, current_idx, context_size) ==
    FALSE

\* the test of line 158
WindowsMeet(prev_idx, current_idx, context_size) ==
    (current_idx - context_size) <= (prev_idx + context_size)

RECURSIVE GroupsFrom(_, _, _, _, _)
\* the loop of lines 154-163 from i on
GroupsFrom(selected_indices, i, current_group, groups, context_size) ==
    IF i > Len(selected_indices) THEN Append(groups, current_group)
    ELSE LET prev_idx == current_group[Len(current_group)]
             current_idx == selected_indices[i]
         IN  IF WindowsMeet(prev_idx, current_idx, context_size)
             THEN GroupsFrom(selected_indices, i + 1, Append(current_group, current_idx),
                             groups, context_size)
             ELSE GroupsFrom(selected_indices, i + 1, <<current_idx>>,
                             Append(groups, current_group), context_size)

\* groups of a non-empty selected_indices
GroupByProximity(selected_indices, context_size) ==
    GroupsFrom(selected_indices, 2, <<selected_indices[1]>>, <<>>, context_size)

\* Every row of the window under its row-number tag.
BlockRowAlwaysTagged(result, idx, selected_indices_in_group, profile_name) ==
    RowLine(Str(result.row_number), Escape(TextForProfile(result, profile_name)))

\* lines 175-182: the line of the row at idx
BlockRow(result, idx, selected_indices_in_group, profile_name) ==
    LET text == TextForProfile(result, profile_name)
        row_number == Str(result.row_number)
    IN  IF idx \in selected_indices_in_group
        THEN RowLine(row_number, Escape(text))
        ELSE RowLine(ContextTag, Escape(text))

\* lines 166-184: the <re-translation> block of one group
BlockLines(file_results, group, profile_name, context_size) ==
    LET min_idx_in_range == Max2(0, group[1] - context_size)
        max_idx_in_range == Min2(Len(file_results) - 1, group[Len(group)] + context_size)
        selected_indices_in_group == {group[k] : k \in 1..Len(group)}
    IN  <<OpenLine(ReTranslationTag)>>
        \o [k \in 1..(max_idx_in_range - min_idx_in_range + 1) |->
              BlockRow(file_results[min_idx_in_range + k], min_idx_in_range + k - 1,
                       selected_indices_in_group, profile_name)]
        \o <<CloseLine(ReTranslationTag)>>

\* lines 135-186: the lines of one file of the selection
RetranslateFileLines(visible, filename, selected_items, profile_name, context_size) ==
    LET file_results == SortedByRowNumber(SelectSeq(visible, LAMBDA r : r.filename = filename))
        selected_indices == SelectedIndices(file_results, filename, selected_items)
    IN  IF file_results = <<>> \/ selected_indices = <<>> THEN <<>>
        ELSE LET groups == GroupByProximity(selected_indices, context_size)
             IN  <<OpenLine(Escape(filename))>>
                 \o Concat([g \in 1..Len(groups) |->
                              BlockLines(file_results, groups[g], profile_name, context_size)], 1)
                 \o <<CloseLine(Escape(filename))>>

\* generate_retranslate_content(ocr_results, source_profile_name,
\* selected_items, context_size): the lines, and whether the call raised
\* (float(None) in the sort key of line 125 is a TypeError).
GenerateRetranslate(rows, profile_name, selected_items, context_size) ==
    LET visible == VisibleResults(rows)
        files == KeysInOrder([k \in 1..Len(selected_items) |-> selected_items[k][1]], 1, {})
    IN  IF selected_items = <<>> THEN [lines |-> <<>>, raised |-> FALSE]
        ELSE IF \E i \in 1..Len(visible) : visible[i].row_number = NoneRN
        THEN [lines |-> <<>>, raised |-> TRUE]
        ELSE [lines |-> Concat([k \in 1..Len(files) |->
                                  RetranslateFileLines(visible, files[k], selected_items,
                                                       profile_name, context_size)], 1),
              raised |-> FALSE]

-----------------------------------------------------------------------------
(* Inputs of the export functions.                                         *)

\* The rows handed to generate_for_translate_content (any sub-list, in this
\* order): a row 10 ahead of a row 2 (its text under profile T is empty), a
\* text of two lines, a text that needs escaping, a float row number, a blank
\* text, a deleted row, a row without filename and a row without row number.
ExportPoolRows ==
    << Row(FileP1, IntRN(10), <<"z">>, ("T" :> <<>>), FALSE),
       Row(FileP1, IntRN(2), <<"H", "i">>, ("T" :> <<"Y", "o">>), FALSE),
       Row(FileP1, IntRN(1), <<"a", "\n", "b">>, EmptyDict, FALSE),
       Row(FileP1, FloatRN(15), <<"a", "<", "b">>, EmptyDict, FALSE),
       Row(FileP2, IntRN(1), <<" ">>, ("T" :> <<"x">>), FALSE),
       Row(FileP1, IntRN(3), <<"c">>, EmptyDict, TRUE),
       Row(None, IntRN(4), <<"e">>, EmptyDict, FALSE),
       Row(FileP1, NoneRN, <<"n">>, EmptyDict, FALSE) >>

ExportRowLists ==
    {SubList(ExportPoolRows, S, 1) : S \in {T \in SUBSET (1..Len(ExportPoolRows)) :
                                              Cardinality(T) <= MaxExportRows}}

ExportProfiles == {"Original", "T"}

\* The rows handed to generate_retranslate_content (any sub-list, in this
\* order): rows 1..5 of one file out of order, a deleted row between them, a
\* row of another file, a row without row number and a row without filename.
RetranslatePoolRows ==
    << Row(FileP1, IntRN(3), <<"c">>, EmptyDict, FALSE),
       Row(FileP1, IntRN(1), <<"a">>, EmptyDict, FALSE),
       Row(FileP1, IntRN(2), <<"b">>, ("T" :> <<"B">>), FALSE),
       Row(FileP1, IntRN(5), <<"e">>, EmptyDict, FALSE),
       Row(FileP1, IntRN(4), <<"d">>, EmptyDict, FALSE),
       Row(FileP1, FloatRN(25), <<"x">>, EmptyDict, TRUE),
       Row(FileP2, IntRN(1), <<"f">>, EmptyDict, FALSE),
       Row(FileP1, NoneRN, <<"n">>, EmptyDict, FALSE),
       Row(None, IntRN(6), <<"g">>, EmptyDict, FALSE) >>

RetranslateRowLists ==
    {SubList(RetranslatePoolRows, S, 1) : S \in {T \in SUBSET (1..Len(RetranslatePoolRows)) :
                                                   Cardinality(T) <= MaxRetranslateRows}}

\* The (filename, row_number_str) pairs a selection is made of (any sub-list,
\* in this order); row 9 is the number of no row, row 2.5 that of the deleted
\* row.
SelectablePairs ==
    << <<FileP2, <<"1">>>>, <<FileP1, <<"4">>>>, <<FileP1, <<"1">>>>,
       <<FileP1, <<"2">>>>, <<FileP1, <<"5">>>>, <<FileP1, <<"9">>>>,
       <<FileP1, <<"2", ".", "5">>>> >>

Selections ==
    {SubList(SelectablePairs, S, 1) : S \in {T \in SUBSET (1..Len(SelectablePairs)) :
                                               Cardinality(T) <= MaxSelected}}

ContextSizes == 0..MaxContextSize

-----------------------------------------------------------------------------
(* The calls of the codec.                                                 *)

InitCodec ==
    /\ ocr_results = <<>>
    /\ profiles = EmptyDict
    /\ active_profile_name = "Original"
    /\ emitted = <<>>
    /\ raised = FALSE
    /\ ret = None
    /\ last = NoCall
    /\ streak = NoStreak
    /\ exp_call = NoExport
    /\ exp_lines = <<>>
    /\ content = <<>>
    /\ imp_pc = "idle"
    /\ imp_lines = <<>>
    /\ imp_idx = 0
    /\ translations = EmptyDict
    /\ current_filename = None
    /\ min_text_height = 0
    /\ max_text_height = 0
    /\ min_confidence = 0
    /\ auto_context_fill = FALSE
    /\ stop_requested = FALSE
    /\ ocr_pc = "none"
    /\ was_resized = FALSE
    /\ scaled_results = <<>>
    /\ filter_i = 0
    /\ filtered_results = <<>>
    /\ merged_results = <<>>
    /\ ocr_signals = <<>>
    /\ merge_calls = <<>>
    /\ stop_seen_at = ""
    /\ manual_call = NoManualCall
    /\ is_running = TRUE
    /\ tt_pc = "none"
    /\ response_stream = <<>>
    /\ full_response_text = <<>>
    /\ tt_signals = <<>>
    /\ stopped_at = ""
    /\ manual_ocr_handler = Handler(FALSE, None)
    /\ context_fill_handler = Handler(FALSE, None)
    /\ mode_last = NoModeCall
    /\ selection_paths = <<>>
    /\ btn_process_fill = FALSE
    /\ btn_reset_selection = FALSE
    /\ selected_since_reset = {}
    /\ last_rect = {}
    /\ path_call = NoPathCall
    /\ app_version = <<>>
    /\ latest_release_data = NoRelease
    /\ up_pc = "idle"
    /\ manifest_data = NoManifest
    /\ update_path = <<>>
    /\ download_queue = <<>>
    /\ downloaded_files = <<>>
    /\ downloaded_update_dir = FALSE
    /\ update_temp_dir = NoDir
    /\ up_signals = <<>>
    /\ up_last = NoUpdateStep
    /\ attempt = "none"
    /\ fetched = <<>>
    /\ dir_open = FALSE
    /\ existing_ret = None
    /\ worker_pc = "none"
    /\ install_disk = EmptyDict
    /\ extract_path = EmptyDict
    /\ worker_manifest = NoWorkerManifest
    /\ locked_files = {}
    /\ worker_error = ""
    /\ disk_before = EmptyDict
    /\ extract_before = EmptyDict

\* content = generate_for_translate_content(ocr_results, source_profile_name)
GenerateForTranslateCall ==
    /\ imp_pc = "idle"
    /\ \E rows \in ExportRowLists, profile_name \in ExportProfiles :
          /\ exp_call' = ExportCall("generate_for_translate_content", rows, profile_name, <<>>, 0)
          /\ exp_lines' = GenerateForTranslate(rows, profile_name)
          /\ content' = RenderLines(GenerateForTranslate(rows, profile_name), 1)
    /\ imp_pc' = "ready"
    /\ UNCHANGED <<imp_lines, imp_idx, translations, current_filename>>
    /\ UNCHANGED <<pmVars, appVars>>

\* The external translation step returns a document.
ReceiveExternalContent ==
    /\ imp_pc = "idle"
    /\ \E c \in ExternalContents : content' = c
    /\ exp_call' = ExportCall("external", <<>>, "", <<>>, 0)
    /\ imp_pc' = "ready"
    /\ UNCHANGED <<exp_lines, imp_lines, imp_idx, translations, current_filename>>
    /\ UNCHANGED <<pmVars, appVars>>

\* import_translation_file_content(content): up to the loop
ImportBegin ==
    /\ imp_pc = "ready"
    /\ imp_pc' = "loop"
    /\ imp_lines' = SplitLines(content)
    /\ imp_idx' = 1
    /\ translations' = EmptyDict
    /\ current_filename' = None
    /\ UNCHANGED <<exp_call, exp_lines, content>>
    /\ UNCHANGED <<pmVars, appVars>>

\* one pass of the loop
ImportLine ==
    /\ imp_pc = "loop"
    /\ imp_idx <= Len(imp_lines)
    /\ LET r == ImportStep(translations, current_filename, imp_lines[imp_idx])
       IN  /\ translations' = r.translations
           /\ current_filename' = r.current_filename
           /\ raised' = r.raised
           /\ imp_pc' = IF r.raised THEN "raised" ELSE "loop"
    /\ imp_idx' = imp_idx + 1
    /\ UNCHANGED <<exp_call, exp_lines, content, imp_lines>>
    /\ UNCHANGED <<ocr_results, profiles, active_profile_name, emitted, ret, last, streak,
                 appVars>>

\* return translations
ImportReturn ==
    /\ imp_pc = "loop"
    /\ imp_idx > Len(imp_lines)
    /\ imp_pc' = "done"
    /\ UNCHANGED <<exp_call, exp_lines, content, imp_lines, imp_idx, translations,
                   current_filename>>
    /\ UNCHANGED <<pmVars, appVars>>

CodecNext ==
    \/ GenerateForTranslateCall
    \/ ReceiveExternalContent
    \/ ImportBegin
    \/ ImportLine
    \/ ImportReturn

SpecCodec == InitCodec /\ [][CodecNext]_vars

-----------------------------------------------------------------------------
(* The calls of generate_retranslate_content.                              *)

InitRetranslate ==
    /\ ocr_results \in RetranslateRowLists
    /\ profiles = EmptyDict
    /\ active_profile_name = "Original"
    /\ emitted = <<>>
    /\ raised = FALSE
    /\ ret = None
    /\ last = NoCall
    /\ streak = NoStreak
    /\ exp_call = NoExport
    /\ exp_lines = <<>>
    /\ content = <<>>
    /\ imp_pc = "idle"
    /\ imp_lines = <<>>
    /\ imp_idx = 0
    /\ translations = EmptyDict
    /\ current_filename = None
    /\ min_text_height = 0
    /\ max_text_height = 0
    /\ min_confidence = 0
    /\ auto_context_fill = FALSE
    /\ stop_requested = FALSE
    /\ ocr_pc = "none"
    /\ was_resized = FALSE
    /\ scaled_results = <<>>
    /\ filter_i = 0
    /\ filtered_results = <<>>
    /\ merged_results = <<>>
    /\ ocr_signals = <<>>
    /\ merge_calls = <<>>
    /\ stop_seen_at = ""
    /\ manual_call = NoManualCall
    /\ is_running = TRUE
    /\ tt_pc = "none"
    /\ response_stream = <<>>
    /\ full_response_text = <<>>
    /\ tt_signals = <<>>
    /\ stopped_at = ""
    /\ manual_ocr_handler = Handler(FALSE, None)
    /\ context_fill_handler = Handler(FALSE, None)
    /\ mode_last = NoModeCall
    /\ selection_paths = <<>>
    /\ btn_process_fill = FALSE
    /\ btn_reset_selection = FALSE
    /\ selected_since_reset = {}
    /\ last_rect = {}
    /\ path_call = NoPathCall
    /\ app_version = <<>>
    /\ latest_release_data = NoRelease
    /\ up_pc = "idle"
    /\ manifest_data = NoManifest
    /\ update_path = <<>>
    /\ download_queue = <<>>
    /\ downloaded_files = <<>>
    /\ downloaded_update_dir = FALSE
    /\ update_temp_dir = NoDir
    /\ up_signals = <<>>
    /\ up_last = NoUpdateStep
    /\ attempt = "none"
    /\ fetched = <<>>
    /\ dir_open = FALSE
    /\ existing_ret = None
    /\ worker_pc = "none"
    /\ install_disk = EmptyDict
    /\ extract_path = EmptyDict
    /\ worker_manifest = NoWorkerManifest
    /\ locked_files = {}
    /\ worker_error = ""
    /\ disk_before = EmptyDict
    /\ extract_before = EmptyDict

\* content = generate_retranslate_content(model.ocr_results, profile,
\* selected_items, context_size)
GenerateRetranslateCall ==
    /\ imp_pc = "idle"
    /\ \E profile_name \in ExportProfiles, selected_items \in Selections,
          context_size \in ContextSizes :
          LET r == GenerateRetranslate(ocr_results, profile_name, selected_items, context_size)
          IN  /\ exp_call' = ExportCall("generate_retranslate_content", ocr_results,
                                        profile_name, selected_items, context_size)
              /\ exp_lines' = r.lines
              /\ content' = RenderLines(r.lines, 1)
              /\ raised' = r.raised
    /\ imp_pc' = "ready"
    /\ UNCHANGED <<ocr_results, profiles, active_profile_name, emitted, ret, last, streak,
                 appVars>>
    /\ UNCHANGED <<imp_lines, imp_idx, translations, current_filename>>

\* content = generate_for_translate_content(model.ocr_results, profile)
GenerateForTranslateOfModelCall ==
    /\ imp_pc = "idle"
    /\ \E profile_name \in ExportProfiles :
          /\ exp_call' = ExportCall("generate_for_translate_content", ocr_results,
                                    profile_name, <<>>, 0)
          /\ exp_lines' = GenerateForTranslate(ocr_results, profile_name)
          /\ content' = RenderLines(GenerateForTranslate(ocr_results, profile_name), 1)
    /\ raised' = FALSE
    /\ imp_pc' = "ready"
    /\ UNCHANGED <<ocr_results, profiles, active_profile_name, emitted, ret, last, streak,
                 appVars>>
    /\ UNCHANGED <<imp_lines, imp_idx, translations, current_filename>>

RetranslateNext ==
    \/ GenerateRetranslateCall
    \/ GenerateForTranslateOfModelCall

SpecRetranslate == InitRetranslate /\ [][RetranslateNext]_vars

-----------------------------------------------------------------------------
(* Properties of ProfileManager.                                           *)

\* The lowest positive integer i with "User Edit i" not among names.
LowestFreeIndex(names) ==
    CHOOSE i \in 1..(Cardinality(names) + 1) :
        /\ UserEditName(i) \notin names
        /\ \A j \in 1..(i - 1) : UserEditName(j) \in names

HasText(pdata, f, r) == f \in DOMAIN pdata /\ r \in DOMAIN pdata[f]

\* C1 (fork-once law): after two consecutive update_text calls on known rows
\* that began with "Original" loaded and active, exactly one profile was
\* added; it is "User Edit i" for the lowest free i, it is active, and on
\* every key the two calls did not touch it holds Original's text.
C1_ForkOnce ==
    streak.n = 2 =>
        LET new == UserEditName(LowestFreeIndex(streak.preNames))
        IN  /\ new \notin streak.preNames
            /\ DOMAIN profiles = streak.preNames \cup {new}
            /\ active_profile_name = new
            /\ \A f \in DOMAIN profiles["Original"] :
                 \A r \in DOMAIN profiles["Original"][f] :
                    <<f, r>> \notin streak.touched =>
                        /\ HasText(profiles[new], f, r)
                        /\ profiles[new][f][r] = profiles["Original"][f][r]

\* Two updates of one row after a load that already held "User Edit 1": the
\* fork is "User Edit 2" and another row of Original is untouched.
C1_Witness ==
    /\ streak.n = 2
    /\ "User Edit 1" \in streak.preNames
    /\ active_profile_name = "User Edit 2"
    /\ \E f \in DOMAIN profiles["Original"] :
         \E r \in DOMAIN profiles["Original"][f] : <<f, r>> \notin streak.touched
    /\ \E k \in streak.touched : profiles["User Edit 2"][k[1]][k[2]] = <<"x">>

\* C2: once "Original" is loaded, no update_text, combine_rows, add_profile
\* or switch_active_profile call changes the data of the "Original" profile.
C2_OriginalNeverMutated ==
    [][("Original" \in DOMAIN profiles
        /\ last'.op \in {"update_text", "combine_rows", "add_profile",
                         "switch_active_profile"})
       => ("Original" \in DOMAIN profiles'
           /\ profiles'["Original"] = profiles["Original"])]_vars

\* An edit of a known row arrived in a non-Original profile while Original
\* still holds another text for that row.
C2_Witness ==
    /\ last.op \in {"update_text", "combine_rows"}
    /\ last.resolved
    /\ active_profile_name # "Original"
    /\ {active_profile_name, "Original"} \subseteq DOMAIN profiles
    /\ HasText(profiles["Original"], last.key[1], last.key[2])
    /\ HasText(profiles[active_profile_name], last.key[1], last.key[2])
    /\ profiles[active_profile_name][last.key[1]][last.key[2]] = <<"x">>
    /\ profiles["Original"][last.key[1]][last.key[2]] # <<"x">>

\* C3: the active profile name is always a key of the profiles map (also
\* before load_from_results has run).
C3_ActiveIsAProfile == active_profile_name \in DOMAIN profiles

\* C4: on a loaded ProfileManager, update_text or combine_rows with a row
\* number the model cannot resolve raises nothing and changes neither the
\* profiles nor the active profile.
C4_UnknownRowIsNoOp ==
    [][("Original" \in DOMAIN profiles
        /\ last'.op \in {"update_text", "combine_rows"}
        /\ ~last'.resolved)
       => (/\ ~raised'
           /\ profiles' = profiles
           /\ active_profile_name' = active_profile_name)]_vars

\* C5: get_display_text returns the active profile's text for the key when it
\* has one, else Original's text for the key, else the empty string.
C5_DisplayFallback ==
    last.op = "get_display_text" =>
        LET f == last.key[1]
            r == last.key[2]
            act == active_profile_name
        IN  ret = IF act \in DOMAIN profiles /\ HasText(profiles[act], f, r)
                  THEN profiles[act][f][r]
                  ELSE IF "Original" \in DOMAIN profiles
                          /\ HasText(profiles["Original"], f, r)
                  THEN profiles["Original"][f][r]
                  ELSE <<>>

\* A row that only Original holds was displayed while another profile was
\* active, and the Original text came back.
C5_Witness ==
    /\ last.op = "get_display_text"
    /\ active_profile_name # "Original"
    /\ {active_profile_name, "Original"} \subseteq DOMAIN profiles
    /\ ~HasText(profiles[active_profile_name], last.key[1], last.key[2])
    /\ HasText(profiles["Original"], last.key[1], last.key[2])
    /\ ret = profiles["Original"][last.key[1]][last.key[2]]
    /\ ret # <<>>

-----------------------------------------------------------------------------
(* Properties of the codec.                                                *)

\* digits, or digits "." digits
IsNumber(s) ==
    \/ Len(s) > 0 /\ \A i \in 1..Len(s) : s[i] \in Digits
    \/ \E d \in 2..(Len(s) - 1) :
          /\ s[d] = "."
          /\ \A i \in (1..Len(s)) \ {d} : s[i] \in Digits

\* the position of the first ">" of a line, 0 when it has none
FirstGt(line) ==
    LET gts == {i \in 1..Len(line) : line[i] = ">"}
    IN  IF gts = {} THEN 0 ELSE CHOOSE i \in gts : \A j \in gts : i <= j

\* the name of the tag a line begins with, <<>> when it begins with none
LeadingTagName(line) ==
    IF Len(line) > 0 /\ line[1] = "<" /\ FirstGt(line) > 2
    THEN SubSeq(line, 2, FirstGt(line) - 1) ELSE <<>>

\* what follows the tag a line begins with
AfterLeadingTag(line) == SubSeq(line, FirstGt(line) + 1, Len(line))

\* the line begins with an integer or decimal row tag
IsRowTagLine(line) == IsNumber(LeadingTagName(line))

\* The line begins with a filename tag: an opening tag whose name is neither
\* a number nor a structural name (file_tag_pattern asks for a name of two
\* characters or more).
IsFilenameTagLine(line) ==
    LET name == LeadingTagName(line)
    IN  /\ Len(name) >= 2
        /\ name[1] # "/"
        /\ ~IsNumber(name)
        /\ Lower(name) \notin ReservedNames

\* the lines before the k-th that begin with a filename tag
FilenameTagLinesBefore(lines, k) ==
    {j \in 1..(k - 1) : IsFilenameTagLine(Strip(lines[j]))}

\* the filename of the most recently seen filename tag before line k
FilenameBefore(lines, k) ==
    LET js == FilenameTagLinesBefore(lines, k)
        j == CHOOSE m \in js : \A n \in js : m >= n
    IN  Unescape(LeadingTagName(Strip(lines[j])))

\* The content of a row line: from its row tag to its closing tag when that is
\* on the line, else to the end of the line.
RowContent(line) ==
    LET rest == AfterLeadingTag(line)
        closing == <<"<", "/">> \o LeadingTagName(line) \o <<">">>
    IN  IF RFind(rest, closing) = -1 THEN rest ELSE Slice(rest, 0, RFind(rest, closing))

HasTranslateTag(s) == Find(Lower(s), TranslateOpen) # -1

\* the text inside the <translate> tag of s, to </translate> or to the end
InsideTranslate(s) ==
    LET after == Slice(s, Find(Lower(s), TranslateOpen) + Len(TranslateOpen), Len(s))
        close == Find(Lower(after), TranslateClose)
    IN  IF close = -1 THEN after ELSE Slice(after, 0, close)

\* the import has just passed line k of the document
JustImported(k) == imp_pc \in {"loop", "done"} /\ imp_idx = k + 1

\* visible rows with a filename, a row number and a non-blank text under the
\* source profile
RoundTripRows(rows, profile_name) ==
    {i \in 1..Len(rows) :
        /\ ~rows[i].is_deleted
        /\ rows[i].filename # None
        /\ rows[i].row_number # NoneRN
        /\ \E c \in 1..Len(TextForProfile(rows[i], profile_name)) :
              TextForProfile(rows[i], profile_name)[c] \notin Whitespace}

\* {filename: {str(row_number): text}} of those rows
ExpectedMapping(rows, profile_name) ==
    LET rt == RoundTripRows(rows, profile_name)
    IN  [f \in {rows[i].filename : i \in rt} |->
           [r \in {Str(rows[i].row_number) : i \in {j \in rt : rows[j].filename = f}} |->
              LET i == CHOOSE j \in rt : rows[j].filename = f /\ Str(rows[j].row_number) = r
              IN  TextForProfile(rows[i], profile_name)]]

\* C6 (exchange round trip): import_translation_file_content applied to the
\* output of generate_for_translate_content returns exactly the mapping
\* {filename: {str(row_number): text}} of the visible rows with non-blank
\* text, with no row lost, added or altered.
C6_RoundTrip ==
    (imp_pc = "done" /\ exp_call.fn = "generate_for_translate_content")
        => translations = ExpectedMapping(exp_call.rows, exp_call.profile)

\* C7 (tolerant import): a line that begins with an integer or decimal row tag
\* and comes after a filename tag is recorded under the most recently seen
\* filename, with the text from the row tag to the row's closing tag when
\* that is on the line and to the end of the line otherwise (unescaped and
\* stripped; lines with a <translate> tag or without text are set aside).
C7_TolerantImport ==
    \A k \in 1..Len(imp_lines) :
        LET line == Strip(imp_lines[k])
        IN  (/\ JustImported(k)
             /\ IsRowTagLine(line)
             /\ FilenameTagLinesBefore(imp_lines, k) # {}
             /\ ~HasTranslateTag(RowContent(line))
             /\ Strip(Unescape(RowContent(line))) # <<>>)
            => (/\ HasText(translations, FilenameBefore(imp_lines, k), LeadingTagName(line))
                /\ translations[FilenameBefore(imp_lines, k)][LeadingTagName(line)]
                     = Strip(Unescape(RowContent(line))))

\* "<f.p>\n<3>Hi there" was imported as {"f.p": {"3": "Hi there"}}.
C7_Witness ==
    /\ imp_pc = "done"
    /\ content = XFileF \o <<"\n">> \o XRowOpen
    /\ translations = (<<"f", ".", "p">> :> (<<"3">> :> <<"H", "i", " ", "t", "h", "e", "r", "e">>))

\* C8: a row line whose content has a <translate> tag, closed or not, is
\* recorded with only the text inside that tag (unescaped and stripped); a
\* row line without <translate> tag is recorded with its whole content.
C8_TranslateInner ==
    \A k \in 1..Len(imp_lines) :
        LET line == Strip(imp_lines[k])
            recorded == IF HasTranslateTag(RowContent(line))
                        THEN Strip(Unescape(InsideTranslate(RowContent(line))))
                        ELSE Strip(Unescape(RowContent(line)))
        IN  (/\ JustImported(k)
             /\ IsRowTagLine(line)
             /\ FilenameTagLinesBefore(imp_lines, k) # {}
             /\ recorded # <<>>)
            => (/\ HasText(translations, FilenameBefore(imp_lines, k), LeadingTagName(line))
                /\ translations[FilenameBefore(imp_lines, k)][LeadingTagName(line)] = recorded)

-----------------------------------------------------------------------------
(* Properties of generate_retranslate_content.                             *)

\* a generate_retranslate_content call has returned its content
Retranslated == exp_call.fn = "generate_retranslate_content" /\ ~raised

\* the visible rows of a file
VisibleOf(filename) ==
    {exp_call.rows[i] : i \in {j \in 1..Len(exp_call.rows) :
                                  /\ ~exp_call.rows[j].is_deleted
                                  /\ exp_call.rows[j].filename = filename}}

\* The visible row of a file at 0-based index idx of the numerical order (the
\* row numbers of a file are distinct).
RowAt(filename, idx) ==
    CHOOSE r \in VisibleOf(filename) :
        Cardinality({q \in VisibleOf(filename) : Float(q.row_number) < Float(r.row_number)}) = idx

SelectedSet == {exp_call.selected[k] : k \in 1..Len(exp_call.selected)}

\* the indices of the selected visible rows of a file
SelectedIndicesOf(filename) ==
    {idx \in 0..(Cardinality(VisibleOf(filename)) - 1) :
        <<filename, Str(RowAt(filename, idx).row_number)>> \in SelectedSet}

\* the lines of the output that open a <re-translation> block
BlockStarts == {i \in 1..Len(exp_lines) : exp_lines[i] = OpenLine(ReTranslationTag)}

\* the block that opens at line i, from <re-translation> to </re-translation>
BlockAt(i) ==
    LET closes == {j \in (i + 1)..Len(exp_lines) : exp_lines[j] = CloseLine(ReTranslationTag)}
    IN  SubSeq(exp_lines, i, CHOOSE j \in closes : \A n \in closes : j <= n)

\* the tags of the rows of a block, in order
BlockTags(i) == [k \in 1..(Len(BlockAt(i)) - 2) |-> BlockAt(i)[k + 1].tag]

\* the file whose wrapper holds line i: the tag of the nearest file line above
FileOfLine(i) ==
    LET opens == {j \in 1..(i - 1) : /\ exp_lines[j].kind = "open"
                                     /\ exp_lines[j].tag # ReTranslationTag}
    IN  exp_lines[CHOOSE j \in opens : \A n \in opens : j >= n].tag

\* The block of a group: the rows at the indices from max(0, min - context_size)
\* to min(last, max + context_size), the group's rows under their row-number
\* tag and the others under <context>.
ExpectedBlock(filename, group) ==
    LET lo == Max2(0, (CHOOSE m \in group : \A n \in group : m <= n) - exp_call.context_size)
        hi == Min2(Cardinality(VisibleOf(filename)) - 1,
                   (CHOOSE m \in group : \A n \in group : m >= n) + exp_call.context_size)
    IN  <<OpenLine(ReTranslationTag)>>
        \o [k \in 1..(hi - lo + 1) |->
              LET r == RowAt(filename, lo + k - 1)
              IN  RowLine(IF lo + k - 1 \in group THEN Str(r.row_number) ELSE ContextTag,
                          Escape(TextForProfile(r, exp_call.profile)))]
        \o <<CloseLine(ReTranslationTag)>>

\* context_size is 1, one file has exactly the visible rows 1..5, and rows 1, 2
\* and 4 of it are the selection
FiveRowsThreeSelected ==
    /\ Retranslated
    /\ exp_call.context_size = 1
    /\ {r.row_number : r \in VisibleOf(FileP1)} = {IntRN(n) : n \in 1..5}
    /\ Cardinality(VisibleOf(FileP1)) = 5
    /\ SelectedSet = {<<FileP1, <<"1">>>>, <<FileP1, <<"2">>>>, <<FileP1, <<"4">>>>}

\* C9 as stated: with context_size 1 and rows 1, 2 and 4 of five selected, the
\* output has two <re-translation> blocks, the first with rows 1 and 2 and the
\* second with row 4.
C9_TwoBlocks ==
    FiveRowsThreeSelected =>
        \E i \in BlockStarts, j \in BlockStarts :
            /\ i < j
            /\ BlockStarts = {i, j}
            /\ \E k \in 1..Len(BlockTags(i)) : BlockTags(i)[k] = <<"1">>
            /\ \E k \in 1..Len(BlockTags(i)) : BlockTags(i)[k] = <<"2">>
            /\ \A k \in 1..Len(BlockTags(i)) : BlockTags(i)[k] # <<"4">>
            /\ \E k \in 1..Len(BlockTags(j)) : BlockTags(j)[k] = <<"4">>

\* C9 (amended): with context_size 1 and rows 1, 2 and 4 of five selected, the
\* output has one <re-translation> block that holds rows 1, 2 and 4 under
\* their row tags and rows 3 and 5 as context: neighbouring selected indices
\* i < j are merged whenever j - context_size <= i + context_size.
C9_OneBlock ==
    FiveRowsThreeSelected =>
        \E i \in BlockStarts :
            /\ BlockStarts = {i}
            /\ BlockTags(i) = << <<"1">>, <<"2">>, ContextTag, <<"4">>, ContextTag >>

\* The call of C9 returned one block of five rows.
C9_Witness ==
    /\ FiveRowsThreeSelected
    /\ exp_call.profile = "Original"
    /\ exp_lines = << OpenLine(FileP1), OpenLine(ReTranslationTag),
                      RowLine(<<"1">>, <<"a">>), RowLine(<<"2">>, <<"b">>),
                      RowLine(ContextTag, <<"c">>), RowLine(<<"4">>, <<"d">>),
                      RowLine(ContextTag, <<"e">>),
                      CloseLine(ReTranslationTag), CloseLine(FileP1) >>

\* C10: every <re-translation> block of the output is the block of a group of
\* selected rows of its file: it covers exactly the numerically sorted visible
\* rows at the indices from max(0, min(group) - context_size) to
\* min(last index, max(group) + context_size), with the rows of the group
\* under their row-number tag and every other row under <context>; and every
\* selected row is in the group of a block.
C10_BlockWindow ==
    Retranslated =>
        /\ \A i \in BlockStarts :
              \E group \in (SUBSET SelectedIndicesOf(FileOfLine(i))) \ {{}} :
                  BlockAt(i) = ExpectedBlock(FileOfLine(i), group)
        /\ \A p \in SelectedSet :
              (\E idx \in SelectedIndicesOf(p[1]) : Str(RowAt(p[1], idx).row_number) = p[2])
              => \E i \in BlockStarts :
                    /\ FileOfLine(i) = p[1]
                    /\ \E k \in 1..Len(BlockTags(i)) : BlockTags(i)[k] = p[2]

\* Rows 1 and 5 of five were selected with context_size 1: the block of row 1
\* is cut at the first row, the block of row 5 at the last.
C10_Witness ==
    /\ Retranslated
    /\ exp_call.context_size = 1
    /\ exp_call.profile = "Original"
    /\ exp_lines = << OpenLine(FileP1),
                      OpenLine(ReTranslationTag), RowLine(<<"1">>, <<"a">>),
                      RowLine(ContextTag, <<"b">>), CloseLine(ReTranslationTag),
                      OpenLine(ReTranslationTag), RowLine(ContextTag, <<"d">>),
                      RowLine(<<"5">>, <<"e">>), CloseLine(ReTranslationTag),
                      CloseLine(FileP1) >>

-----------------------------------------------------------------------------
(* Properties of generate_for_translate_content.                           *)

\* a generate_for_translate_content call has returned its content
Exported == exp_call.fn = "generate_for_translate_content"

\* the lines of the output that carry a row
RowLinesOfOutput == {j \in 1..Len(exp_lines) : exp_lines[j].kind = "row"}

\* the row of the call that line j carries
SourceRows(j) ==
    {i \in 1..Len(exp_call.rows) :
        /\ exp_call.rows[i].filename # None
        /\ exp_call.rows[i].row_number # NoneRN
        /\ Escape(exp_call.rows[i].filename) = FileOfLine(j)
        /\ Str(exp_call.rows[i].row_number) = exp_lines[j].tag
        /\ Escape(TextForProfile(exp_call.rows[i], exp_call.profile)) = exp_lines[j].body}

\* C11: generate_for_translate_content emits a row tag for a row if and only
\* if the row is not deleted, has a filename and a row number, and its text
\* under the source profile is neither empty nor whitespace only; within a
\* filename wrapper the row tags are in ascending numerical order of row
\* number (2 before 10).
C11_ExportedRows ==
    Exported =>
        /\ \A i \in RoundTripRows(exp_call.rows, exp_call.profile) :
              \E j \in RowLinesOfOutput : i \in SourceRows(j)
        /\ \A j \in RowLinesOfOutput :
              SourceRows(j) \cap RoundTripRows(exp_call.rows, exp_call.profile) # {}
        /\ Cardinality(RowLinesOfOutput)
             = Cardinality(RoundTripRows(exp_call.rows, exp_call.profile))
        /\ \A j \in RowLinesOfOutput, k \in RowLinesOfOutput :
              (j < k /\ FileOfLine(j) = FileOfLine(k))
              => \A a \in SourceRows(j), b \in SourceRows(k) :
                    Float(exp_call.rows[a].row_number) <= Float(exp_call.rows[b].row_number)

\* Rows 10 and 2 of one file were exported with a blank row of another file:
\* row 2 comes before row 10 and the blank row has no tag.
C11_Witness ==
    /\ Exported
    /\ exp_call.profile = "Original"
    /\ Len(exp_call.rows) = 3
    /\ exp_lines = << OpenLine(TranslationsTag), OpenLine(FileP1),
                      RowLine(<<"2">>, <<"H", "i">>), RowLine(<<"1", "0">>, <<"z">>),
                      CloseLine(FileP1), CloseLine(TranslationsTag) >>

-----------------------------------------------------------------------------
(* Properties of import_translation_file_content on malformed documents.   *)

\* a pass of the import loop
ImportPass == imp_pc = "loop" /\ imp_idx' = imp_idx + 1

\* C12: no pass of the import loop raises, whatever the line (stray closing
\* tag, unclosed tag, row line before any file tag, blank line), so the loop
\* runs to its return; and a pass records a row only under a filename that
\* had an entry in the result before the pass.
C12_ImportNeverRaises ==
    [][ImportPass
       => (/\ ~raised'
           /\ imp_pc' = "loop"
           /\ \A f \in DOMAIN translations' :
                 translations'[f] # EmptyDict => f \in DOMAIN translations)]_vars

\* A stray closing tag, a row line before any file tag and a blank line were
\* imported as the empty mapping.
C12_Witness ==
    /\ imp_pc = "done"
    /\ ~raised
    /\ content = XStrayClose \o <<"\n">> \o XRowOpen \o <<"\n">> \o XBlank
    /\ translations = EmptyDict

\* C13: no tag whose name is an integer or decimal number is ever taken for a
\* filename: the result has no entry of such a name and the current filename
\* is never such a name, so a row line before any filename tag is ignored.
C13_NoNumericFilename ==
    imp_pc \in {"loop", "done"} =>
        /\ \A f \in DOMAIN translations : ~IsNumber(f)
        /\ ~IsNumber(current_filename)

\* the line begins with a structural tag, in any letter case
IsStructuralTagLine(line) == Lower(LeadingTagName(line)) \in ReservedNames

\* C14: no pass of the import loop leaves an entry or a current filename
\* named translations, translate, context or re-translation in any letter
\* case, and a pass over a line that begins with such a tag changes neither
\* the current filename nor the result.
C14_NoStructuralFilename ==
    [][ImportPass
       => (/\ \A f \in DOMAIN translations' : Lower(f) \notin ReservedNames
           /\ Lower(current_filename') \notin ReservedNames
           /\ IsStructuralTagLine(Strip(imp_lines[imp_idx]))
              => (/\ current_filename' = current_filename
                  /\ translations' = translations))]_vars

\* "<f.p>\n<Context>\n<3>Hi there" was imported as {"f.p": {"3": "Hi there"}}.
C14_Witness ==
    /\ imp_pc = "done"
    /\ content = XFileF \o <<"\n">> \o XReservedUpper \o <<"\n">> \o XRowOpen
    /\ translations = (<<"f", ".", "p">> :> (<<"3">> :> <<"H", "i", " ", "t", "h", "e", "r", "e">>))

-----------------------------------------------------------------------------
(* Further properties of ProfileManager.                                   *)

\* the (filename, row) keys of a profile
KeysOf(pdata) == UNION {{<<f, r>> : r \in DOMAIN pdata[f]} : f \in DOMAIN pdata}

\* the profiles other than "Original" that hold the key
HoldersOf(key) ==
    {p \in (DOMAIN profiles) \ {"Original"} : HasText(profiles[p], key[1], key[2])}

\* C15: get_translations_for_save returns a map whose keys are the
\* (filename, row) keys of the profiles other than "Original"; the value of a
\* key maps exactly the profiles that hold the key, "Original" never among
\* them, to their texts.
C15_SaveInvertsProfiles ==
    last.op = "get_translations_for_save" =>
        /\ DOMAIN ret = UNION {KeysOf(profiles[p]) : p \in (DOMAIN profiles) \ {"Original"}}
        /\ \A key \in DOMAIN ret :
              /\ DOMAIN ret[key] = HoldersOf(key)
              /\ \A p \in HoldersOf(key) : ret[key][p] = profiles[p][key[1]][key[2]]

\* The profiles were saved when one key was held by two profiles besides
\* Original, another by one, and Original held keys of its own.
C15_Witness ==
    /\ last.op = "get_translations_for_save"
    /\ "Original" \in DOMAIN profiles
    /\ KeysOf(profiles["Original"]) # {}
    /\ \E k1 \in DOMAIN ret, k2 \in DOMAIN ret :
          /\ Cardinality(DOMAIN ret[k1]) = 2
          /\ Cardinality(DOMAIN ret[k2]) = 1

\* the row lacks a filename or a row_number
IsIncompleteRow(result) == result.filename = None \/ result.row_number.kind = "none"

\* C16: after load_from_results no profile holds an entry for a row that
\* lacks a filename or a row_number, and every other row has its text in
\* "Original".
C16_SkipsIncompleteRows ==
    (last.op = "load_from_results" /\ "Original" \in DOMAIN profiles) =>
        \A i \in 1..Len(ocr_results) :
            LET result == ocr_results[i]
            IN  IF IsIncompleteRow(result)
                THEN \A p \in DOMAIN profiles :
                        ~HasText(profiles[p], result.filename, Str(result.row_number))
                ELSE HasText(profiles["Original"], result.filename, Str(result.row_number))

\* the rows load_from_results loads: those it does not skip at line 33
LoadedRows == {i \in 1..Len(ocr_results) : ocr_results[i].filename # None}

\* the loaded rows that give profile p a text for the key
RowsGiving(p, key) ==
    {i \in LoadedRows :
        /\ <<ocr_results[i].filename, Str(ocr_results[i].row_number)>> = key
        /\ (p = "Original" \/ p \in DOMAIN ocr_results[i].translations)}

\* the text row i gives profile p
TextGiven(p, i) ==
    IF p = "Original" THEN ocr_results[i].text ELSE ocr_results[i].translations[p]

\* C17: after load_from_results, whatever profiles it found, the active
\* profile is "Original", the profiles are exactly "Original" and the names
\* in the translations maps of the loaded rows, and every text of every
\* profile is the one the last loaded row with that key gives it: nothing
\* from before the call is left.
C17_LoadResets ==
    last.op = "load_from_results" =>
        /\ active_profile_name = "Original"
        /\ DOMAIN profiles =
              {"Original"} \cup UNION {DOMAIN ocr_results[i].translations : i \in LoadedRows}
        /\ \A p \in DOMAIN profiles :
              /\ KeysOf(profiles[p]) =
                    {key \in {<<ocr_results[i].filename, Str(ocr_results[i].row_number)>> :
                                 i \in LoadedRows} : RowsGiving(p, key) # {}}
              /\ \A key \in KeysOf(profiles[p]) :
                    \E i \in RowsGiving(p, key) :
                        /\ \A j \in RowsGiving(p, key) : j <= i
                        /\ profiles[p][key[1]][key[2]] = TextGiven(p, i)

\* load_from_results ran on a ProfileManager that held a forked "User Edit 1"
\* and an added profile, neither named by the rows, and on rows of which one
\* without filename carries a translation.
C17_Witness ==
    /\ last.op = "load_from_results"
    /\ {"Original", "User Edit 1"} \subseteq streak.preNames
    /\ \E p \in streak.preNames : p \in {"T", "T (1)", "Original (1)"} /\ p \notin DOMAIN profiles
    /\ "User Edit 1" \notin DOMAIN profiles
    /\ \E i \in 1..Len(ocr_results) :
          ocr_results[i].filename = None /\ ocr_results[i].translations # EmptyDict
    /\ LoadedRows # {}

\* C18: an update_text or combine_rows call made while a profile other than
\* "Original" is active creates no profile and leaves that profile active,
\* and when the model resolves the row the active profile holds the new
\* text for it afterwards.
C18_EditsGoToActive ==
    [][(/\ active_profile_name # "Original"
        /\ active_profile_name \in DOMAIN profiles
        /\ last'.op \in {"update_text", "combine_rows"})
       => (/\ DOMAIN profiles' = DOMAIN profiles
           /\ active_profile_name' = active_profile_name
           /\ last'.resolved =>
                 /\ HasText(profiles'[active_profile_name], last'.key[1], last'.key[2])
                 /\ profiles'[active_profile_name][last'.key[1]][last'.key[2]] \in EditTexts)]_vars

\* the positions of edit_profile_created in a sequence of signals
CreatedAt(sigs) == {i \in 1..Len(sigs) : sigs[i][1] = "edit_profile_created"}

\* C19: an update_text or combine_rows call made while "Original" is loaded
\* and active emits edit_profile_created once, with the name of the profile
\* the call created, which is the active profile by then: the signal follows
\* the active_profile_changed of the switch. A call made while another
\* profile is active emits no edit_profile_created.
C19_ForkAnnouncedOnce ==
    [][last'.op \in {"update_text", "combine_rows"}
       => IF active_profile_name = "Original" /\ "Original" \in DOMAIN profiles
          THEN /\ Cardinality(CreatedAt(emitted')) = 1
               /\ \A i \in CreatedAt(emitted') :
                     /\ emitted'[i][2] = active_profile_name'
                     /\ emitted'[i][2] \in (DOMAIN profiles') \ (DOMAIN profiles)
                     /\ \E j \in 1..(i - 1) : emitted'[j] = SigActiveProfileChanged
          ELSE CreatedAt(emitted') = {}]_vars

\* combine_rows on a known row forked "User Edit 2" (a "User Edit 1" was
\* loaded from the rows) and announced it after the switch.
C19_Witness ==
    /\ last.op = "combine_rows"
    /\ last.resolved
    /\ active_profile_name = "User Edit 2"
    /\ {"Original", "User Edit 1", "User Edit 2"} \subseteq DOMAIN profiles
    /\ emitted = <<SigActiveProfileChanged, SigProfilesUpdated,
                   SigEditProfileCreated("User Edit 2")>>

\* name is the first unused one among base, "base (1)", "base (2)", ...
IsFirstUnused(name, base, names) ==
    IF base \notin names THEN name = base
    ELSE \E k \in 1..(Cardinality(names) + 1) :
            /\ name = SuffixedName(base, k)
            /\ name \notin names
            /\ \A j \in 1..(k - 1) : SuffixedName(base, j) \in names

\* C20: an add_profile call adds exactly one profile and leaves every
\* existing profile and the active profile name as they were; the new
\* profile holds the data passed and its name is the first unused one among
\* the name passed, "name (1)", "name (2)", and so on.
C20_AddProfileAddsOne ==
    [][last'.op = "add_profile"
       => (/\ active_profile_name' = active_profile_name
           /\ \A p \in DOMAIN profiles :
                 p \in DOMAIN profiles' /\ profiles'[p] = profiles[p]
           /\ \E new \in (DOMAIN profiles') \ (DOMAIN profiles) :
                 /\ DOMAIN profiles' = (DOMAIN profiles) \cup {new}
                 /\ profiles'[new] \in AddDatas
                 /\ \E base \in AddNames : IsFirstUnused(new, base, DOMAIN profiles))]_vars

\* add_profile("T", data) found "T" and "T (1)" in use, both loaded from the
\* rows, while "T" was active: the data went under "T (2)".
C20_Witness ==
    /\ last.op = "add_profile"
    /\ active_profile_name = "T"
    /\ {"T", "T (1)", "T (2)"} \subseteq DOMAIN profiles
    /\ profiles["T (2)"] \in AddDatas
    /\ profiles["T"] \notin AddDatas
    /\ profiles["T (1)"] \notin AddDatas

\* C21: a switch_active_profile(name) call never changes the profiles; when
\* name is not a profile or is the active one already it leaves the active
\* name as it was and emits nothing, otherwise name is active afterwards and
\* active_profile_changed was emitted once (and nothing else).
C21_SwitchActiveProfile ==
    [][last'.op = "switch_active_profile"
       => (/\ profiles' = profiles
           /\ IF last'.name \notin DOMAIN profiles \/ last'.name = active_profile_name
              THEN active_profile_name' = active_profile_name /\ emitted' = <<>>
              ELSE /\ active_profile_name' = last'.name
                   /\ emitted' = <<SigActiveProfileChanged>>)]_vars

\* switch_active_profile("Nope") left a loaded "T" active, silently, with an
\* unused name "Nope".
C21_Witness ==
    /\ last.op = "switch_active_profile"
    /\ last.name = "Nope"
    /\ active_profile_name = "T"
    /\ {"Original", "T"} \subseteq DOMAIN profiles
    /\ "Nope" \notin DOMAIN profiles
    /\ emitted = <<>>

-----------------------------------------------------------------------------
(* Properties of both export functions.                                    *)

\* an export function has returned its content
AnyExported ==
    /\ exp_call.fn \in {"generate_for_translate_content", "generate_retranslate_content"}
    /\ ~raised

\* the rows of the call, deleted or not as asked, that line j can stand for:
\* rows of the file of the line with the line's text, under their row number
\* or as context
SourcesOfLine(j, deleted) ==
    {i \in 1..Len(exp_call.rows) :
        /\ exp_call.rows[i].is_deleted = deleted
        /\ exp_call.rows[i].filename # None
        /\ Escape(exp_call.rows[i].filename) = FileOfLine(j)
        /\ Escape(TextForProfile(exp_call.rows[i], exp_call.profile)) = exp_lines[j].body
        /\ exp_lines[j].tag \in {ContextTag, Str(exp_call.rows[i].row_number)}}

\* the positions, within the rows of the block at i, of the rows under a
\* row-number tag
TaggedIn(i) == {k \in 1..Len(BlockTags(i)) : BlockTags(i)[k] # ContextTag}

\* The block at i is a run of consecutive visible rows of its file, and its
\* context reaches context_size visible rows before the first tagged row and
\* after the last, or to the end of the visible rows.
WindowCountsVisibleRows(i) ==
    LET f == FileOfLine(i)
        n == Len(BlockTags(i))
        count == Cardinality(VisibleOf(f))
        first == CHOOSE k \in TaggedIn(i) : \A q \in TaggedIn(i) : k <= q
        final == CHOOSE k \in TaggedIn(i) : \A q \in TaggedIn(i) : k >= q
    IN  /\ TaggedIn(i) # {}
        /\ \E lo \in 0..(count - n) :
              /\ \A k \in 1..n :
                    BlockAt(i)[k + 1].body
                      = Escape(TextForProfile(RowAt(f, lo + k - 1), exp_call.profile))
              /\ first - 1 = Min2(exp_call.context_size, lo + first - 1)
              /\ n - final = Min2(exp_call.context_size, count - (lo + final))

\* C22: in the output of generate_for_translate_content and of
\* generate_retranslate_content every row line, under a row tag or as
\* <context>, is the line of a row that is not deleted, and none is the line
\* of a deleted row (the deleted rows of the model differ from every other
\* row in number and text); the context window of a <re-translation> block
\* is counted in rows that are not deleted.
C22_DeletedRowsNeverExported ==
    AnyExported =>
        /\ \A j \in RowLinesOfOutput :
              SourcesOfLine(j, FALSE) # {} /\ SourcesOfLine(j, TRUE) = {}
        /\ exp_call.fn = "generate_retranslate_content"
              => \A i \in BlockStarts : WindowCountsVisibleRows(i)

\* Row 2 and the deleted row 2.5 were selected with context_size 1: the
\* block holds row 2 between rows 1 and 3, and row 2.5 nowhere.
C22_Witness ==
    /\ Retranslated
    /\ exp_call.context_size = 1
    /\ exp_call.profile = "Original"
    /\ SelectedSet = {<<FileP1, <<"2">>>>, <<FileP1, <<"2", ".", "5">>>>}
    /\ \E i \in 1..Len(exp_call.rows) :
          exp_call.rows[i].is_deleted /\ exp_call.rows[i].row_number = FloatRN(25)
    /\ exp_lines = << OpenLine(FileP1), OpenLine(ReTranslationTag),
                      RowLine(ContextTag, <<"a">>), RowLine(<<"2">>, <<"b">>),
                      RowLine(ContextTag, <<"c">>),
                      CloseLine(ReTranslationTag), CloseLine(FileP1) >>

\* the row has a filename and a row number
IsCompleteRow(result) == result.filename # None /\ result.row_number # NoneRN

\* C23: a call of generate_for_translate_content or of
\* generate_retranslate_content on rows of which some lack a filename or a
\* row number does not raise, and every row line of its output is the line
\* of a row that has both.
C23_IncompleteRowsSkipped ==
    exp_call.fn \in {"generate_for_translate_content", "generate_retranslate_content"} =>
        /\ ~raised
        /\ \A j \in RowLinesOfOutput :
              \E i \in SourcesOfLine(j, FALSE) : IsCompleteRow(exp_call.rows[i])

-----------------------------------------------------------------------------
(* app/core/ocr_processor.py: OCRProcessor.run, and                        *)
(* app/handlers/manual_ocr_handler.py: _filter_and_merge_results.          *)
(* Coordinates are integers, confidences are percents.                     *)

MaxFragments == 2      \* regions reader.readtext returns for one image

\* The size of the image, and the width above which it is resized.
OriginalWidth == 8
OriginalHeight == 8
ResizeThreshold == 4
ResizeThresholds == {0, ResizeThreshold}

\* One region of reader.readtext(..., detail=1): (coordinates, text, confidence)
Fragment(coord, text, conf) == [coordinates |-> coord, text |-> text, confidence |-> conf]

\* The regions the reader finds (any sub-list, in this order): one that passes
\* the filters, a low one, a high one, one of low confidence, one without
\* coordinates and one whose point lacks its y.
FragmentPool ==
    << Fragment(<< <<0, 0>>, <<2, 0>>, <<2, 3>>, <<0, 3>> >>, "ok", 90),
       Fragment(<< <<0, 0>>, <<2, 0>>, <<2, 1>>, <<0, 1>> >>, "low", 90),
       Fragment(<< <<0, 1>>, <<2, 1>>, <<2, 6>>, <<0, 6>> >>, "high", 90),
       Fragment(<< <<3, 0>>, <<5, 0>>, <<5, 3>>, <<3, 3>> >>, "faint", 20),
       Fragment(<< >>, "nowhere", 90),
       Fragment(<< <<1>> >>, "broken", 90) >>

RawResultLists ==
    {SubList(FragmentPool, S, 1) : S \in {T \in SUBSET (1..Len(FragmentPool)) :
                                            Cardinality(T) <= MaxFragments}}

\* The filter settings of the runs.
MinTextHeights == {0, 2}
MaxTextHeights == {4}
MinConfidences == {50}

\* a point p for which p[0] or p[1] is an IndexError
IsBrokenCoordinates(coord) == \E k \in 1..Len(coord) : Len(coord[k]) < 2

\* resized_height = int(original_height * ratio), ratio = max_width / original_width
ResizedHeight(max_width) == (OriginalHeight * max_width) \div OriginalWidth

\* [[int(p[0] * scale_x), int(p[1] * scale_y)] for p in coord_float], with
\* scale_x = original_width / resized_width, scale_y = original_height / resized_height
ScaledCoordinates(coord, resized_width, resized_height) ==
    [k \in 1..Len(coord) |-> << (coord[k][1] * OriginalWidth) \div resized_width,
                               (coord[k][2] * OriginalHeight) \div resized_height >>]

\* lines 118-138: scaled_results; a result whose coordinates raise is skipped
ScaledResults(raw, resized_width, resized_height) ==
    LET good == SelectSeq(raw, LAMBDA r : ~IsBrokenCoordinates(r.coordinates))
    IN  [k \in 1..Len(good) |->
           Fragment(ScaledCoordinates(good[k].coordinates, resized_width, resized_height),
                    good[k].text, good[k].confidence)]

\* max(y_coords) - min(y_coords) if y_coords else 0
Height(coord) ==
    IF coord = <<>> THEN 0
    ELSE LET y_coords == {coord[k][2] : k \in 1..Len(coord)}
         IN  (CHOOSE y \in y_coords : \A z \in y_coords : y >= z)
             - (CHOOSE y \in y_coords : \A z \in y_coords : y <= z)

\* The confidence is not tested.
PassesHeightOnly(coord, confidence, min_h, max_h, min_conf) ==
    min_h <= Height(coord) /\ Height(coord) <= max_h

\* min_h <= height <= max_h and confidence >= min_conf (lines 155-156 of
\* ocr_processor.py, line 243 of manual_ocr_handler.py)
PassesFilters(coord, confidence, min_h, max_h, min_conf) ==
    /\ min_h <= Height(coord)
    /\ Height(coord) <= max_h
    /\ confidence >= min_conf

\* for res in filtered_results: res['filename'] = "placeholder"
WithPlaceholder(results) ==
    [k \in 1..Len(results) |->
       [coordinates |-> results[k].coordinates, text |-> results[k].text,
        confidence |-> results[k].confidence, filename |-> "placeholder"]]

\* app.utils.data_processing.group_and_merge_text(results, distance_threshold):
\* the merged entries, here one entry that holds the fragments it was given;
\* no entry for no fragment
GroupAndMergeText(results) ==
    IF results = <<>> THEN <<>>
    ELSE << [parts |-> [k \in 1..Len(results) |-> results[k].text], custom_style |-> ""] >>

\* lines 194-197: the transparent style of auto-inpaint
Styled(merged, auto) ==
    IF auto /\ merged # <<>>
    THEN [k \in 1..Len(merged) |-> [merged[k] EXCEPT !.custom_style = "#00000000"]]
    ELSE merged

SigProgress(n) == <<"ocr_progress", n>>
SigFinished(results) == <<"ocr_finished", results>>
SigError == <<"error_occurred", "">>
SigAutoInpaint(coords) == <<"auto_inpaint_requested", coords>>

\* ManualOCRHandler._filter_and_merge_results(raw_results, main_window_ref)
\* going on to merge an empty list
FilterAndMergeAlways(raw_results, min_h, max_h, min_conf) ==
    LET temp_results ==
            SelectSeq(raw_results,
                      LAMBDA r : PassesFilters(r.coordinates, r.confidence, min_h, max_h, min_conf))
    IN  IF \E k \in 1..Len(raw_results) : IsBrokenCoordinates(raw_results[k].coordinates)
        THEN [raised |-> TRUE, call |-> ManualCall(raw_results, FALSE, <<>>, <<>>)]
        ELSE [raised |-> FALSE,
              call |-> ManualCall(raw_results, TRUE, temp_results,
                                  GroupAndMergeText(temp_results))]

\* ManualOCRHandler._filter_and_merge_results(raw_results, main_window_ref);
\* raised when a point lacks its y (IndexError at line 241)
FilterAndMergeResults(raw_results, min_h, max_h, min_conf) ==
    LET temp_results ==
            SelectSeq(raw_results,
                      LAMBDA r : PassesFilters(r.coordinates, r.confidence, min_h, max_h, min_conf))
    IN  IF \E k \in 1..Len(raw_results) : IsBrokenCoordinates(raw_results[k].coordinates)
        THEN [raised |-> TRUE, call |-> ManualCall(raw_results, FALSE, <<>>, <<>>)]
        ELSE IF temp_results = <<>>
        THEN [raised |-> FALSE, call |-> ManualCall(raw_results, FALSE, <<>>, <<>>)]
        ELSE [raised |-> FALSE,
              call |-> ManualCall(raw_results, TRUE, temp_results,
                                  GroupAndMergeText(temp_results))]

\* OCRProcessor(reader, min_text_height, max_text_height, min_confidence, ...)
InitOCR ==
    /\ ocr_results = <<>>
    /\ profiles = EmptyDict
    /\ active_profile_name = "Original"
    /\ emitted = <<>>
    /\ raised = FALSE
    /\ ret = None
    /\ last = NoCall
    /\ streak = NoStreak
    /\ exp_call = NoExport
    /\ exp_lines = <<>>
    /\ content = <<>>
    /\ imp_pc = "idle"
    /\ imp_lines = <<>>
    /\ imp_idx = 0
    /\ translations = EmptyDict
    /\ current_filename = None
    /\ min_text_height \in MinTextHeights
    /\ max_text_height \in MaxTextHeights
    /\ min_confidence \in MinConfidences
    /\ auto_context_fill \in BOOLEAN
    /\ stop_requested = FALSE
    /\ ocr_pc = "ready"
    /\ was_resized = FALSE
    /\ scaled_results = <<>>
    /\ filter_i = 0
    /\ filtered_results = <<>>
    /\ merged_results = <<>>
    /\ ocr_signals = <<>>
    /\ merge_calls = <<>>
    /\ stop_seen_at = ""
    /\ manual_call = NoManualCall
    /\ is_running = TRUE
    /\ tt_pc = "none"
    /\ response_stream = <<>>
    /\ full_response_text = <<>>
    /\ tt_signals = <<>>
    /\ stopped_at = ""
    /\ manual_ocr_handler = Handler(FALSE, None)
    /\ context_fill_handler = Handler(FALSE, None)
    /\ mode_last = NoModeCall
    /\ selection_paths = <<>>
    /\ btn_process_fill = FALSE
    /\ btn_reset_selection = FALSE
    /\ selected_since_reset = {}
    /\ last_rect = {}
    /\ path_call = NoPathCall
    /\ app_version = <<>>
    /\ latest_release_data = NoRelease
    /\ up_pc = "idle"
    /\ manifest_data = NoManifest
    /\ update_path = <<>>
    /\ download_queue = <<>>
    /\ downloaded_files = <<>>
    /\ downloaded_update_dir = FALSE
    /\ update_temp_dir = NoDir
    /\ up_signals = <<>>
    /\ up_last = NoUpdateStep
    /\ attempt = "none"
    /\ fetched = <<>>
    /\ dir_open = FALSE
    /\ existing_ret = None
    /\ worker_pc = "none"
    /\ install_disk = EmptyDict
    /\ extract_path = EmptyDict
    /\ worker_manifest = NoWorkerManifest
    /\ locked_files = {}
    /\ worker_error = ""
    /\ disk_before = EmptyDict
    /\ extract_before = EmptyDict

\* Another thread sets processor.stop_requested = True.
RequestStop ==
    /\ ocr_pc # "none"
    /\ ~stop_requested
    /\ stop_requested' = TRUE
    /\ stop_seen_at' = ocr_pc
    /\ UNCHANGED <<min_text_height, max_text_height, min_confidence, auto_context_fill,
                   ocr_pc, was_resized, scaled_results, filter_i, filtered_results,
                   merged_results, ocr_signals, merge_calls, manual_call>>
    /\ UNCHANGED notOCRVars

\* run, lines 52-96: the image is loaded and preprocessed (an exception goes
\* to the handler of line 211), then stop_requested is read
RunToReader ==
    /\ ocr_pc = "ready"
    /\ \E fails \in BOOLEAN, resize_threshold \in ResizeThresholds :
          IF fails
          THEN /\ ocr_signals' = Append(ocr_signals, SigError)
               /\ ocr_pc' = "returned"
               /\ UNCHANGED was_resized
          ELSE /\ was_resized' = (resize_threshold > 0 /\ OriginalWidth > resize_threshold)
               /\ ocr_pc' = IF stop_requested THEN "returned" ELSE "reader"
               /\ UNCHANGED ocr_signals
    /\ UNCHANGED <<min_text_height, max_text_height, min_confidence, auto_context_fill,
                   stop_requested, scaled_results, filter_i, filtered_results,
                   merged_results, merge_calls, stop_seen_at, manual_call>>
    /\ UNCHANGED notOCRVars

\* run, lines 98-143: reader.readtext (an exception goes to the handler),
\* ocr_progress(50), stop_requested is read, the coordinates are scaled
RunReader ==
    /\ ocr_pc = "reader"
    /\ \E fails \in BOOLEAN, raw_results \in RawResultLists :
          IF fails
          THEN /\ ocr_signals' = Append(ocr_signals, SigError)
               /\ ocr_pc' = "returned"
               /\ UNCHANGED <<scaled_results, filter_i>>
          ELSE /\ ocr_signals' = Append(ocr_signals, SigProgress(50))
               /\ IF stop_requested
                  THEN ocr_pc' = "returned" /\ UNCHANGED <<scaled_results, filter_i>>
                  ELSE /\ ocr_pc' = "filter"
                       /\ filter_i' = 1
                       /\ scaled_results' =
                            IF was_resized
                            THEN ScaledResults(raw_results, ResizeThreshold,
                                               ResizedHeight(ResizeThreshold))
                            ELSE ScaledResults(raw_results, OriginalWidth, OriginalHeight)
    /\ UNCHANGED <<min_text_height, max_text_height, min_confidence, auto_context_fill,
                   stop_requested, was_resized, filtered_results, merged_results,
                   merge_calls, stop_seen_at, manual_call>>
    /\ UNCHANGED notOCRVars

\* run, lines 144-161: one iteration of the filter loop
RunFilterStep ==
    /\ ocr_pc = "filter"
    /\ filter_i <= Len(scaled_results)
    /\ LET result == scaled_results[filter_i]
           num_scaled == Len(scaled_results)
       IN  IF stop_requested
           THEN /\ ocr_pc' = "filtered"
                /\ UNCHANGED <<filter_i, filtered_results, ocr_signals>>
           ELSE IF result.coordinates = <<>>
           THEN /\ filter_i' = filter_i + 1
                /\ UNCHANGED <<ocr_pc, filtered_results, ocr_signals>>
           ELSE /\ filter_i' = filter_i + 1
                /\ filtered_results' =
                     IF PassesFilters(result.coordinates, result.confidence,
                                      min_text_height, max_text_height, min_confidence)
                     THEN Append(filtered_results, result)
                     ELSE filtered_results
                /\ ocr_signals' = Append(ocr_signals,
                                         SigProgress(50 + ((filter_i * 25) \div num_scaled)))
                /\ UNCHANGED ocr_pc
    /\ UNCHANGED <<min_text_height, max_text_height, min_confidence, auto_context_fill,
                   stop_requested, was_resized, scaled_results, merged_results,
                   merge_calls, stop_seen_at, manual_call>>
    /\ UNCHANGED notOCRVars

\* run, lines 163-199: stop_requested is read, auto-inpaint is requested,
\* the filtered results are merged, ocr_progress(100)
RunMerge ==
    /\ \/ ocr_pc = "filtered"
       \/ ocr_pc = "filter" /\ filter_i > Len(scaled_results)
    /\ IF stop_requested
       THEN /\ ocr_pc' = "returned"
            /\ UNCHANGED <<merged_results, ocr_signals, merge_calls>>
       ELSE /\ ocr_pc' = "before_emit"
            /\ merge_calls' = IF filtered_results = <<>> THEN merge_calls
                              ELSE Append(merge_calls, WithPlaceholder(filtered_results))
            /\ merged_results' =
                 Styled(IF filtered_results = <<>> THEN <<>>
                        ELSE GroupAndMergeText(WithPlaceholder(filtered_results)),
                        auto_context_fill)
            /\ ocr_signals' =
                 ocr_signals
                 \o (IF auto_context_fill /\ filtered_results # <<>>
                     THEN <<SigAutoInpaint([k \in 1..Len(filtered_results) |->
                                               filtered_results[k].coordinates])>>
                     ELSE <<>>)
                 \o <<SigProgress(100)>>
    /\ UNCHANGED <<min_text_height, max_text_height, min_confidence, auto_context_fill,
                   stop_requested, was_resized, scaled_results, filter_i,
                   filtered_results, stop_seen_at, manual_call>>
    /\ UNCHANGED notOCRVars

\* run, lines 201-202: stop_requested is read before the results are emitted
RunCheckBeforeEmit ==
    /\ ocr_pc = "before_emit"
    /\ ocr_pc' = IF stop_requested THEN "returned" ELSE "emit"
    /\ UNCHANGED <<min_text_height, max_text_height, min_confidence, auto_context_fill,
                   stop_requested, was_resized, scaled_results, filter_i, filtered_results,
                   merged_results, ocr_signals, merge_calls, stop_seen_at, manual_call>>
    /\ UNCHANGED notOCRVars

\* run, lines 204-209: ocr_finished.emit(merged_results)
RunEmit ==
    /\ ocr_pc = "emit"
    /\ ocr_signals' = Append(ocr_signals, SigFinished(merged_results))
    /\ ocr_pc' = "returned"
    /\ UNCHANGED <<min_text_height, max_text_height, min_confidence, auto_context_fill,
                   stop_requested, was_resized, scaled_results, filter_i, filtered_results,
                   merged_results, merge_calls, stop_seen_at, manual_call>>
    /\ UNCHANGED notOCRVars

\* filtered_results = self._filter_and_merge_results(raw_results_relative, main_window)
FilterAndMergeResultsCall ==
    /\ \E raw_results \in RawResultLists :
          LET r == FilterAndMergeResults(raw_results, min_text_height, max_text_height,
                                         min_confidence)
          IN  /\ manual_call' = r.call
              /\ raised' = r.raised
    /\ UNCHANGED <<min_text_height, max_text_height, min_confidence, auto_context_fill,
                   stop_requested, ocr_pc, was_resized, scaled_results, filter_i,
                   filtered_results, merged_results, ocr_signals, merge_calls, stop_seen_at>>
    /\ UNCHANGED <<ocr_results, profiles, active_profile_name, emitted, ret, last, streak>>
    /\ UNCHANGED <<codecVars, threadVars, modeVars, fillVars, pathVars, updateVars, workerVars>>

OCRNext ==
    \/ RequestStop
    \/ RunToReader
    \/ RunReader
    \/ RunFilterStep
    \/ RunMerge
    \/ RunCheckBeforeEmit
    \/ RunEmit
    \/ FilterAndMergeResultsCall

SpecOCR == InitOCR /\ [][OCRNext]_vars

-----------------------------------------------------------------------------
(* Properties of the OCR call sites.                                       *)

\* the fragment is within the filter settings
WithinSettings(fragment) ==
    /\ min_text_height <= Height(fragment.coordinates)
    /\ Height(fragment.coordinates) <= max_text_height
    /\ fragment.confidence >= min_confidence

\* the signals of one name that the OCRProcessor emitted
SignalsNamed(name) == {k \in 1..Len(ocr_signals) : ocr_signals[k][1] = name}

\* run is past its merge step
RunMerged == ocr_pc \in {"before_emit", "emit"} \/ SignalsNamed("ocr_finished") # {}

\* C24: in OCRProcessor.run and in _filter_and_merge_results every fragment
\* handed to group_and_merge_text is within the filter settings, and run
\* hands over only once its filter loop is through; when no fragment is
\* within the settings the merge is not called, the result is the empty list
\* and no error is raised or signalled.
C24_FilterBeforeMerge ==
    /\ \A c \in 1..Len(merge_calls) :
          /\ filter_i > Len(scaled_results)
          /\ \A k \in 1..Len(merge_calls[c]) : WithinSettings(merge_calls[c][k])
    /\ (RunMerged /\ \A k \in 1..Len(scaled_results) : ~WithinSettings(scaled_results[k]))
          => /\ merge_calls = <<>>
             /\ merged_results = <<>>
             /\ SignalsNamed("error_occurred") = {}
             /\ \A k \in SignalsNamed("ocr_finished") : ocr_signals[k][2] = <<>>
    /\ manual_call.merged
          => \A k \in 1..Len(manual_call.handed) : WithinSettings(manual_call.handed[k])
    /\ (/\ manual_call # NoManualCall
        /\ \A k \in 1..Len(manual_call.raw_results) :
               /\ ~IsBrokenCoordinates(manual_call.raw_results[k].coordinates)
               /\ ~WithinSettings(manual_call.raw_results[k]))
          => ~manual_call.merged /\ manual_call.returned = <<>> /\ ~raised

\* A run and a manual call each found two regions and handed one of them to
\* the merge; the run has emitted its result.
C24_Witness ==
    /\ ocr_pc = "returned"
    /\ SignalsNamed("ocr_finished") # {}
    /\ Len(scaled_results) = 2
    /\ Len(merge_calls) = 1
    /\ Len(merge_calls[1]) = 1
    /\ manual_call.merged
    /\ Len(manual_call.raw_results) = 2
    /\ Len(manual_call.handed) = 1

-----------------------------------------------------------------------------
(* Properties of ProfileManager: edits and display, saving and loading.    *)

\* C25: when update_text(r, t) on a row that the model resolves and that
\* "Original" holds is followed by get_display_text for that row, the text
\* returned is t, whichever profile was active.
C25_DisplayAfterUpdate ==
    [][(/\ last.op = "update_text"
        /\ last.resolved
        /\ ~raised
        /\ "Original" \in DOMAIN profiles
        /\ HasText(profiles["Original"], last.key[1], last.key[2])
        /\ last'.op = "get_display_text"
        /\ last'.key = last.key)
       => ret' \in EditTexts]_vars

\* the rows with a filename and a translations map that is not empty
TranslatedRows ==
    {i \in 1..Len(ocr_results) :
        ocr_results[i].filename # None /\ ocr_results[i].translations # EmptyDict}

\* C26: get_translations_for_save called right after load_from_results, on
\* rows whose (filename, row_number) are unique, returns a map whose keys
\* are the (filename, str(row_number)) of the rows with a translations map
\* that is not empty, each mapped to exactly that map.
C26_SaveReversesLoad ==
    [][(last.op = "load_from_results" /\ last'.op = "get_translations_for_save")
       => (/\ DOMAIN ret' = {<<ocr_results[i].filename, Str(ocr_results[i].row_number)>> :
                                i \in TranslatedRows}
           /\ \A i \in TranslatedRows :
                 ret'[<<ocr_results[i].filename, Str(ocr_results[i].row_number)>>]
                   = ocr_results[i].translations)]_vars

\* The profiles loaded from a row with one translation and a row with two
\* were saved: one key per row, each with the row's map.
C26_Witness ==
    /\ last.op = "get_translations_for_save"
    /\ Len(ocr_results) = 2
    /\ TranslatedRows = {1, 2}
    /\ profiles = LoadFromResults(ocr_results)
    /\ ret = (<<FileP1, <<"2">>>> :> ("User Edit 1" :> <<"c">>))
             @@ (<<FileP2, <<"3", ".", "5">>>> :> ("T" :> <<"d">> @@ "T (1)" :> <<"d">>))

-----------------------------------------------------------------------------
(* Properties of generate_retranslate_content: the blocks of one file.     *)

\* the 0-based index, in the numerical order of the visible rows of a file,
\* of the row whose str(row_number) is the tag
IndexOfTag(filename, tag) ==
    CHOOSE idx \in 0..(Cardinality(VisibleOf(filename)) - 1) :
        Str(RowAt(filename, idx).row_number) = tag

\* The index range of the block at i, read off its first row-number tag: the
\* row under it stands at its index, the rows around it at the next indices.
BlockLo(i) ==
    LET first == CHOOSE k \in TaggedIn(i) : \A q \in TaggedIn(i) : k <= q
    IN  IndexOfTag(FileOfLine(i), BlockTags(i)[first]) - (first - 1)

BlockHi(i) == BlockLo(i) + Len(BlockTags(i)) - 1

\* the row lines of the wrapper of a file that carry the tag
LinesTagged(filename, tag) ==
    {j \in 1..Len(exp_lines) :
        /\ exp_lines[j].kind = "row"
        /\ exp_lines[j].tag = tag
        /\ FileOfLine(j) = filename}

\* C27: in the output of generate_retranslate_content the <re-translation>
\* blocks of one file cover pairwise disjoint index ranges in ascending
\* order, and every selected visible row is emitted exactly once, under its
\* row-number tag, and at no place of a block as <context>.
C27_BlocksDisjoint ==
    Retranslated =>
        /\ \A i \in BlockStarts : TaggedIn(i) # {}
        /\ \A i \in BlockStarts, j \in BlockStarts :
              (i < j /\ FileOfLine(i) = FileOfLine(j)) => BlockHi(i) < BlockLo(j)
        /\ \A p \in SelectedSet :
              \A idx \in SelectedIndicesOf(p[1]) :
                  Str(RowAt(p[1], idx).row_number) = p[2]
                  => /\ Cardinality(LinesTagged(p[1], p[2])) = 1
                     /\ \A i \in BlockStarts :
                           (FileOfLine(i) = p[1] /\ idx \in BlockLo(i)..BlockHi(i))
                           => BlockTags(i)[idx - BlockLo(i) + 1] = p[2]

\* Rows 1, 4 and 5 of five were selected with context_size 1: the block of
\* row 1 ends at row 2, the block of rows 4 and 5 begins at row 3.
C27_Witness ==
    /\ Retranslated
    /\ exp_call.context_size = 1
    /\ exp_call.profile = "Original"
    /\ SelectedSet = {<<FileP1, <<"1">>>>, <<FileP1, <<"4">>>>, <<FileP1, <<"5">>>>}
    /\ exp_lines = << OpenLine(FileP1),
                      OpenLine(ReTranslationTag), RowLine(<<"1">>, <<"a">>),
                      RowLine(ContextTag, <<"b">>), CloseLine(ReTranslationTag),
                      OpenLine(ReTranslationTag), RowLine(ContextTag, <<"c">>),
                      RowLine(<<"4">>, <<"d">>), RowLine(<<"5">>, <<"e">>),
                      CloseLine(ReTranslationTag), CloseLine(FileP1) >>

-----------------------------------------------------------------------------
(* Properties of OCRProcessor.run under a stop request.                    *)

\* a run emits at most one of ocr_finished and error_occurred
AtMostOneOutcome ==
    Cardinality(SignalsNamed("ocr_finished") \cup SignalsNamed("error_occurred")) <= 1

\* C28: once stop_requested has been set while run is executing, the run
\* emits no ocr_finished; and a run emits at most one of ocr_finished and
\* error_occurred.
C28_StopPreventsFinished ==
    [][/\ stop_requested => SignalsNamed("ocr_finished")' = SignalsNamed("ocr_finished")
       /\ AtMostOneOutcome']_vars

-----------------------------------------------------------------------------
(* app/core/translations.py: TranslationThread. run is one action per      *)
(* step that reads _is_running (the variable is_running) or emits a        *)
(* signal; stop runs on the thread of the window.                          *)

MaxChunks == 2      \* chunks of one response stream

\* a chunk whose text is the given string, and a chunk whose .text raises
\* ValueError
TextChunk(text) == [text |-> text, raises |-> FALSE]
BrokenChunk == [text |-> <<>>, raises |-> TRUE]

ChunkPool == {TextChunk(<<"a">>), TextChunk(<<"b">>), TextChunk(<<>>), BrokenChunk}

ResponseStreams == UNION {[1..n -> ChunkPool] : n \in 0..MaxChunks}

SigTranslationProgress(text) == <<"translation_progress", text>>
SigTranslationFinished(text) == <<"translation_finished", text>>
SigTranslationFailed == <<"translation_failed", "">>

\* TranslationThread(api_key, full_prompt, model_name), started
InitThread ==
    /\ ocr_results = <<>>
    /\ profiles = EmptyDict
    /\ active_profile_name = "Original"
    /\ emitted = <<>>
    /\ raised = FALSE
    /\ ret = None
    /\ last = NoCall
    /\ streak = NoStreak
    /\ exp_call = NoExport
    /\ exp_lines = <<>>
    /\ content = <<>>
    /\ imp_pc = "idle"
    /\ imp_lines = <<>>
    /\ imp_idx = 0
    /\ translations = EmptyDict
    /\ current_filename = None
    /\ min_text_height = 0
    /\ max_text_height = 0
    /\ min_confidence = 0
    /\ auto_context_fill = FALSE
    /\ stop_requested = FALSE
    /\ ocr_pc = "none"
    /\ was_resized = FALSE
    /\ scaled_results = <<>>
    /\ filter_i = 0
    /\ filtered_results = <<>>
    /\ merged_results = <<>>
    /\ ocr_signals = <<>>
    /\ merge_calls = <<>>
    /\ stop_seen_at = ""
    /\ manual_call = NoManualCall
    /\ is_running = TRUE
    /\ tt_pc = "ready"
    /\ response_stream = <<>>
    /\ full_response_text = <<>>
    /\ tt_signals = <<>>
    /\ stopped_at = ""
    /\ manual_ocr_handler = Handler(FALSE, None)
    /\ context_fill_handler = Handler(FALSE, None)
    /\ mode_last = NoModeCall
    /\ selection_paths = <<>>
    /\ btn_process_fill = FALSE
    /\ btn_reset_selection = FALSE
    /\ selected_since_reset = {}
    /\ last_rect = {}
    /\ path_call = NoPathCall
    /\ app_version = <<>>
    /\ latest_release_data = NoRelease
    /\ up_pc = "idle"
    /\ manifest_data = NoManifest
    /\ update_path = <<>>
    /\ download_queue = <<>>
    /\ downloaded_files = <<>>
    /\ downloaded_update_dir = FALSE
    /\ update_temp_dir = NoDir
    /\ up_signals = <<>>
    /\ up_last = NoUpdateStep
    /\ attempt = "none"
    /\ fetched = <<>>
    /\ dir_open = FALSE
    /\ existing_ret = None
    /\ worker_pc = "none"
    /\ install_disk = EmptyDict
    /\ extract_path = EmptyDict
    /\ worker_manifest = NoWorkerManifest
    /\ locked_files = {}
    /\ worker_error = ""
    /\ disk_before = EmptyDict
    /\ extract_before = EmptyDict

\* stop, lines 61-62, called from the thread of the window
ThreadStop ==
    /\ tt_pc # "none"
    /\ is_running
    /\ is_running' = FALSE
    /\ stopped_at' = tt_pc
    /\ UNCHANGED <<tt_pc, response_stream, full_response_text, tt_signals>>
    /\ UNCHANGED notThreadVars

\* run, lines 26-37: the client and the response stream are made (an
\* exception goes to the handler of line 55)
ThreadOpenStream ==
    /\ tt_pc = "ready"
    /\ \E fails \in BOOLEAN, stream \in ResponseStreams :
          IF fails
          THEN /\ tt_signals' = Append(tt_signals, SigTranslationFailed)
               /\ tt_pc' = "returned"
               /\ UNCHANGED <<response_stream, full_response_text>>
          ELSE /\ response_stream' = stream
               /\ full_response_text' = <<>>
               /\ tt_pc' = "next"
               /\ UNCHANGED tt_signals
    /\ UNCHANGED <<is_running, stopped_at>>
    /\ UNCHANGED notThreadVars

\* run, lines 39-42: the next chunk is taken from the stream (an exception
\* goes to the handler), then _is_running is read
ThreadNextChunk ==
    /\ tt_pc = "next"
    /\ \E fails \in BOOLEAN :
          IF fails
          THEN /\ tt_signals' = Append(tt_signals, SigTranslationFailed)
               /\ tt_pc' = "returned"
          ELSE /\ tt_pc' = IF response_stream = <<>> \/ ~is_running
                           THEN "after_loop" ELSE "chunk"
               /\ UNCHANGED tt_signals
    /\ UNCHANGED <<is_running, response_stream, full_response_text, stopped_at>>
    /\ UNCHANGED notThreadVars

\* run, lines 44-50: the text of the chunk is added and emitted
ThreadChunk ==
    /\ tt_pc = "chunk"
    /\ LET chunk == Head(response_stream)
       IN  IF ~chunk.raises /\ chunk.text # <<>>
           THEN /\ full_response_text' = full_response_text \o chunk.text
                /\ tt_signals' = Append(tt_signals, SigTranslationProgress(chunk.text))
           ELSE UNCHANGED <<full_response_text, tt_signals>>
    /\ response_stream' = Tail(response_stream)
    /\ tt_pc' = "next"
    /\ UNCHANGED <<is_running, stopped_at>>
    /\ UNCHANGED notThreadVars

\* run, line 52: _is_running is read after the loop
ThreadCheckFinished ==
    /\ tt_pc = "after_loop"
    /\ tt_pc' = IF is_running THEN "finish" ELSE "returned"
    /\ UNCHANGED <<is_running, response_stream, full_response_text, tt_signals, stopped_at>>
    /\ UNCHANGED notThreadVars

\* run, line 53: translation_finished.emit(full_response_text)
ThreadFinish ==
    /\ tt_pc = "finish"
    /\ tt_signals' = Append(tt_signals, SigTranslationFinished(full_response_text))
    /\ tt_pc' = "returned"
    /\ UNCHANGED <<is_running, response_stream, full_response_text, stopped_at>>
    /\ UNCHANGED notThreadVars

ThreadNext ==
    \/ ThreadStop
    \/ ThreadOpenStream
    \/ ThreadNextChunk
    \/ ThreadChunk
    \/ ThreadCheckFinished
    \/ ThreadFinish

SpecThread == InitThread /\ [][ThreadNext]_vars

-----------------------------------------------------------------------------
(* Properties of TranslationThread under stop.                             *)

\* the positions of the signals of a name among those the thread emitted
ThreadSignalsNamed(name) == {k \in 1..Len(tt_signals) : tt_signals[k][1] = name}

\* C29: once stop() has been called, the thread emits no
\* translation_finished and no further translation_progress.
C29_NothingAfterStop ==
    [][~is_running =>
         /\ ThreadSignalsNamed("translation_finished")'
              = ThreadSignalsNamed("translation_finished")
         /\ ThreadSignalsNamed("translation_progress")'
              = ThreadSignalsNamed("translation_progress")]_vars

-----------------------------------------------------------------------------
(* app/handlers/manual_ocr_handler.py, app/handlers/context_fill_handler.py *)
(* and CustomScrollArea.cancel_active_modes: which mode is active and      *)
(* which image label holds its selection. A handler is the record of its   *)
(* is_active and active_label; the stitch and split handlers that the      *)
(* scroll area also cancels are not part of this state.                    *)

MaxImages == 3      \* image labels of the scroll area
Label(n) == <<"label", n>>
Labels == {Label(n) : n \in 1..MaxImages}

\* _clear_selection_state (manual_ocr_handler.py 110-116,
\* context_fill_handler.py 109-115)
ClearSelectionState(handler) == [handler EXCEPT !.active_label = None]

\* ManualOCRHandler.cancel_mode
ManualCancelMode(handler) ==
    IF ~handler.is_active THEN handler
    ELSE ClearSelectionState([handler EXCEPT !.is_active = FALSE])

\* ContextFillHandler.cancel_mode
FillCancelMode(handler) ==
    IF ~handler.is_active THEN handler
    ELSE ClearSelectionState([handler EXCEPT !.is_active = FALSE])

\* ContextFillHandler._disable_edit_mode is not in the sources; the edit
\* mode it ends is taken to be apart from is_active and active_label.
DisableEditMode(handler) == handler

\* A scroll area that cancels no mode (mutant).
CancelNoMode(manual, fill, exclude_handler, is_edit_mode_active) ==
    [manual |-> manual, fill |-> fill]

\* CustomScrollArea.cancel_active_modes(exclude_handler): the two handlers
\* after the call
CancelActiveModes(manual, fill, exclude_handler, is_edit_mode_active) ==
    LET fill_1 == IF is_edit_mode_active /\ exclude_handler # "context_fill_handler"
                  THEN DisableEditMode(fill) ELSE fill
    IN  [manual |-> IF exclude_handler # "manual_ocr_handler" /\ manual.is_active
                    THEN ManualCancelMode(manual) ELSE manual,
         fill |-> IF exclude_handler # "context_fill_handler" /\ fill_1.is_active
                  THEN FillCancelMode(fill_1) ELSE fill_1]

\* ManualOCRHandler.toggle_mode(checked); reader_ready: main_window.reader
\* exists once its initialization has been requested
ToggleMode(manual, fill, checked, reader_ready, is_edit_mode_active) ==
    IF checked
    THEN LET cancelled == CancelActiveModes(manual, fill, "manual_ocr_handler",
                                            is_edit_mode_active)
             activated == [cancelled.manual EXCEPT !.is_active = TRUE]
         IN  [manual |-> IF ~reader_ready THEN ManualCancelMode(activated)
                         ELSE ClearSelectionState(activated),
              fill |-> cancelled.fill]
    ELSE [manual |-> IF manual.is_active THEN ManualCancelMode(manual) ELSE manual,
          fill |-> fill]

\* ContextFillHandler.start_mode()
StartMode(manual, fill) ==
    IF fill.is_active THEN [manual |-> manual, fill |-> fill]
    ELSE [manual |-> IF manual.is_active THEN ManualCancelMode(manual) ELSE manual,
          fill |-> ClearSelectionState([fill EXCEPT !.is_active = TRUE])]

\* ManualOCRHandler.handle_area_selected(rect_scene, label_widget)
ManualHandleAreaSelected(handler, label_widget) ==
    IF ~handler.is_active THEN handler
    ELSE [handler EXCEPT !.active_label = label_widget]

\* ContextFillHandler.handle_area_selected(new_rect_scene, label_widget)
FillHandleAreaSelected(handler, label_widget) ==
    IF ~handler.is_active THEN handler
    ELSE IF handler.active_label = None
    THEN [handler EXCEPT !.active_label = label_widget]
    ELSE handler

\* A rectangle of the scene, and a QPainterPath, are the sets of unit cells
\* they cover; two paths intersect when they share a cell.
Rect(x1, y1, x2, y2) == {<<x, y>> : x \in x1..x2, y \in y1..y2}

Intersects(path, other) == path \cap other # {}

\* The rectangles a user draws: two apart, one across both, one away from
\* all, one inside the first and one between the first two that meets neither.
RectPool ==
    { Rect(1, 1, 2, 2), Rect(4, 1, 5, 2), Rect(2, 2, 4, 3),
      Rect(1, 5, 1, 5), Rect(1, 1, 1, 1), Rect(3, 1, 3, 1) }

RECURSIVE MergeFrom(_, _, _, _)
\* the loop of lines 151-157 from the i-th existing path on
MergeFrom(paths, i, new_path, remaining_paths) ==
    IF i > Len(paths) THEN Append(remaining_paths, new_path)
    ELSE IF Intersects(paths[i], new_path)
    THEN MergeFrom(paths, i + 1, new_path \cup paths[i], remaining_paths)
    ELSE MergeFrom(paths, i + 1, new_path, Append(remaining_paths, paths[i]))

\* The new rectangle is appended and no path is merged (mutant).
PathsNeverUnited(paths, new_rect_scene) ==
    Append(paths, new_rect_scene)

\* handle_area_selected, lines 146-161: selection_paths after an accepted
\* selection
MergedPaths(paths, new_rect_scene) ==
    MergeFrom(paths, 1, new_rect_scene, <<>>)

\* handle_area_selected accepts the selection: the mode is active and the
\* label is the active one, or none is active yet (lines 126-140)
Accepts(handler, label_widget) ==
    /\ handler.is_active
    /\ handler.active_label \in {None, label_widget}

\* CustomScrollArea.__init__: both handlers constructed, no mode active
InitModes ==
    /\ ocr_results = <<>>
    /\ profiles = EmptyDict
    /\ active_profile_name = "Original"
    /\ emitted = <<>>
    /\ raised = FALSE
    /\ ret = None
    /\ last = NoCall
    /\ streak = NoStreak
    /\ exp_call = NoExport
    /\ exp_lines = <<>>
    /\ content = <<>>
    /\ imp_pc = "idle"
    /\ imp_lines = <<>>
    /\ imp_idx = 0
    /\ translations = EmptyDict
    /\ current_filename = None
    /\ min_text_height = 0
    /\ max_text_height = 0
    /\ min_confidence = 0
    /\ auto_context_fill = FALSE
    /\ stop_requested = FALSE
    /\ ocr_pc = "none"
    /\ was_resized = FALSE
    /\ scaled_results = <<>>
    /\ filter_i = 0
    /\ filtered_results = <<>>
    /\ merged_results = <<>>
    /\ ocr_signals = <<>>
    /\ merge_calls = <<>>
    /\ stop_seen_at = ""
    /\ manual_call = NoManualCall
    /\ is_running = TRUE
    /\ tt_pc = "none"
    /\ response_stream = <<>>
    /\ full_response_text = <<>>
    /\ tt_signals = <<>>
    /\ stopped_at = ""
    /\ manual_ocr_handler = Handler(FALSE, None)
    /\ context_fill_handler = Handler(FALSE, None)
    /\ mode_last = NoModeCall
    /\ selection_paths = <<>>
    /\ btn_process_fill = FALSE
    /\ btn_reset_selection = FALSE
    /\ selected_since_reset = {}
    /\ last_rect = {}
    /\ path_call = NoPathCall
    /\ app_version = <<>>
    /\ latest_release_data = NoRelease
    /\ up_pc = "idle"
    /\ manifest_data = NoManifest
    /\ update_path = <<>>
    /\ download_queue = <<>>
    /\ downloaded_files = <<>>
    /\ downloaded_update_dir = FALSE
    /\ update_temp_dir = NoDir
    /\ up_signals = <<>>
    /\ up_last = NoUpdateStep
    /\ attempt = "none"
    /\ fetched = <<>>
    /\ dir_open = FALSE
    /\ existing_ret = None
    /\ worker_pc = "none"
    /\ install_disk = EmptyDict
    /\ extract_path = EmptyDict
    /\ worker_manifest = NoWorkerManifest
    /\ locked_files = {}
    /\ worker_error = ""
    /\ disk_before = EmptyDict
    /\ extract_before = EmptyDict

\* btn_manual_ocr toggled: manual_ocr_handler.toggle_mode(checked)
ToggleModeCall ==
    /\ \E checked \in BOOLEAN, reader_ready \in BOOLEAN, is_edit_mode_active \in BOOLEAN :
          LET r == ToggleMode(manual_ocr_handler, context_fill_handler, checked,
                              reader_ready, is_edit_mode_active)
          IN  /\ manual_ocr_handler' = r.manual
              /\ context_fill_handler' = r.fill
              /\ mode_last' = ModeCall("toggle_mode", checked, None, manual_ocr_handler,
                                       context_fill_handler)
              /\ IF checked /\ context_fill_handler.is_active
                 THEN selection_paths' = <<>> /\ selected_since_reset' = {}
                 ELSE UNCHANGED <<selection_paths, selected_since_reset>>
    /\ UNCHANGED <<btn_process_fill, btn_reset_selection, last_rect>>
    /\ UNCHANGED notModeVars

\* btn_cancel_manual_ocr clicked: manual_ocr_handler.cancel_mode()
ManualCancelModeCall ==
    /\ manual_ocr_handler' = ManualCancelMode(manual_ocr_handler)
    /\ mode_last' = ModeCall("manual.cancel_mode", FALSE, None, manual_ocr_handler,
                             context_fill_handler)
    /\ UNCHANGED <<context_fill_handler, fillVars>>
    /\ UNCHANGED notModeVars

\* manual_area_selected of a label: manual_ocr_handler.handle_area_selected
ManualHandleAreaSelectedCall ==
    /\ \E label_widget \in Labels :
          /\ manual_ocr_handler' = ManualHandleAreaSelected(manual_ocr_handler, label_widget)
          /\ mode_last' = ModeCall("manual.handle_area_selected", FALSE, label_widget,
                                   manual_ocr_handler, context_fill_handler)
    /\ UNCHANGED <<context_fill_handler, fillVars>>
    /\ UNCHANGED notModeVars

\* btn_reset_selection of manual OCR: reset_selection()
ManualResetSelectionCall ==
    /\ manual_ocr_handler' = ClearSelectionState(manual_ocr_handler)
    /\ mode_last' = ModeCall("manual.reset_selection", FALSE, None, manual_ocr_handler,
                             context_fill_handler)
    /\ UNCHANGED <<context_fill_handler, fillVars>>
    /\ UNCHANGED notModeVars

\* btn_context_fill clicked: context_fill_handler.start_mode()
StartModeCall ==
    /\ LET r == StartMode(manual_ocr_handler, context_fill_handler)
       IN  /\ manual_ocr_handler' = r.manual
           /\ context_fill_handler' = r.fill
    /\ mode_last' = ModeCall("start_mode", FALSE, None, manual_ocr_handler,
                             context_fill_handler)
    /\ IF context_fill_handler.is_active
       THEN UNCHANGED <<selection_paths, selected_since_reset>>
       ELSE selection_paths' = <<>> /\ selected_since_reset' = {}
    /\ UNCHANGED <<btn_process_fill, btn_reset_selection, last_rect>>
    /\ UNCHANGED notModeVars

\* btn_cancel_fill clicked: context_fill_handler.cancel_mode()
FillCancelModeCall ==
    /\ context_fill_handler' = FillCancelMode(context_fill_handler)
    /\ mode_last' = ModeCall("fill.cancel_mode", FALSE, None, manual_ocr_handler,
                             context_fill_handler)
    /\ IF context_fill_handler.is_active
       THEN selection_paths' = <<>> /\ selected_since_reset' = {}
       ELSE UNCHANGED <<selection_paths, selected_since_reset>>
    /\ UNCHANGED <<btn_process_fill, btn_reset_selection, last_rect>>
    /\ UNCHANGED manual_ocr_handler
    /\ UNCHANGED notModeVars

\* a selection drawn on a label: context_fill_handler.handle_area_selected
FillHandleAreaSelectedCall ==
    /\ \E label_widget \in Labels, new_rect_scene \in RectPool :
          /\ context_fill_handler' = FillHandleAreaSelected(context_fill_handler, label_widget)
          /\ mode_last' = ModeCall("fill.handle_area_selected", FALSE, label_widget,
                                   manual_ocr_handler, context_fill_handler)
          /\ last_rect' = new_rect_scene
          /\ IF Accepts(context_fill_handler, label_widget)
             THEN /\ selection_paths' = MergedPaths(selection_paths, new_rect_scene)
                  /\ selected_since_reset' = selected_since_reset \cup {new_rect_scene}
                  /\ btn_process_fill' = TRUE
                  /\ btn_reset_selection' = TRUE
             ELSE UNCHANGED <<selection_paths, selected_since_reset, btn_process_fill,
                              btn_reset_selection>>
    /\ UNCHANGED manual_ocr_handler
    /\ UNCHANGED notModeVars

\* btn_reset_selection of context fill: reset_selection()
FillResetSelectionCall ==
    /\ context_fill_handler' = ClearSelectionState(context_fill_handler)
    /\ mode_last' = ModeCall("fill.reset_selection", FALSE, None, manual_ocr_handler,
                             context_fill_handler)
    /\ selection_paths' = <<>>
    /\ selected_since_reset' = {}
    /\ IF context_fill_handler.is_active
       THEN btn_process_fill' = FALSE /\ btn_reset_selection' = FALSE
       ELSE UNCHANGED <<btn_process_fill, btn_reset_selection>>
    /\ UNCHANGED <<manual_ocr_handler, last_rect>>
    /\ UNCHANGED notModeVars

\* btn_process_fill clicked: process_inpainting(); whether the image was
\* filled or not, the call ends with reset_selection()
ProcessInpaintingCall ==
    /\ context_fill_handler' = ClearSelectionState(context_fill_handler)
    /\ mode_last' = ModeCall("process_inpainting", FALSE, None, manual_ocr_handler,
                             context_fill_handler)
    /\ selection_paths' = <<>>
    /\ selected_since_reset' = {}
    /\ IF context_fill_handler.is_active
       THEN btn_process_fill' = FALSE /\ btn_reset_selection' = FALSE
       ELSE UNCHANGED <<btn_process_fill, btn_reset_selection>>
    /\ UNCHANGED <<manual_ocr_handler, last_rect>>
    /\ UNCHANGED notModeVars

ModesNext ==
    \/ ToggleModeCall
    \/ ManualCancelModeCall
    \/ ManualHandleAreaSelectedCall
    \/ ManualResetSelectionCall
    \/ StartModeCall
    \/ FillCancelModeCall
    \/ FillHandleAreaSelectedCall
    \/ FillResetSelectionCall
    \/ ProcessInpaintingCall

SpecModes == InitModes /\ [][ModesNext]_vars

-----------------------------------------------------------------------------
(* Properties of the manual OCR and context fill modes.                    *)

-----------------------------------------------------------------------------
(* Properties of a context fill session.                                   *)

\* the stored paths that a rectangle meets, and the others in their order
MetBy(rect) == {i \in 1..Len(selection_paths) : Intersects(selection_paths[i], rect)}

\* C31: the stored selection_paths are pairwise non-intersecting and their
\* union is the union of the rectangles accepted since the last reset; an
\* accepted rectangle is united with every stored path it meets while the
\* other paths are kept, in their order; a selection on another image, or
\* in no session, leaves selection_paths unchanged.
C31_PathsDisjoint ==
    [][/\ \A i \in 1..Len(selection_paths'), j \in 1..Len(selection_paths') :
             i # j => ~Intersects(selection_paths'[i], selection_paths'[j])
       /\ UNION {selection_paths'[i] : i \in 1..Len(selection_paths')}
             = UNION selected_since_reset'
       /\ mode_last'.op = "fill.handle_area_selected"
             => IF Accepts(context_fill_handler, mode_last'.label_widget)
                THEN selection_paths'
                       = Append(SelectSeq(selection_paths,
                                          LAMBDA p : ~Intersects(p, last_rect')),
                                last_rect'
                                \cup UNION {selection_paths[i] : i \in MetBy(last_rect')})
                ELSE selection_paths' = selection_paths]_vars

\* Two rectangles apart, one away from both and then one across the first
\* two were selected on one image: the path away is kept, the three others
\* are one path.
C31_Witness ==
    /\ mode_last.op = "fill.handle_area_selected"
    /\ last_rect = Rect(2, 2, 4, 3)
    /\ selected_since_reset
         = {Rect(1, 1, 2, 2), Rect(4, 1, 5, 2), Rect(1, 5, 1, 5), Rect(2, 2, 4, 3)}
    /\ selection_paths
         = << Rect(1, 5, 1, 5),
              Rect(1, 1, 2, 2) \cup Rect(4, 1, 5, 2) \cup Rect(2, 2, 4, 3) >>

\* C32: while context fill mode is active, the buttons "Fill Selected
\* Areas" and "Reset All Selections" are enabled exactly when at least one
\* selection path is stored.
C32_ButtonsFollowPaths ==
    context_fill_handler.is_active =>
        /\ btn_process_fill <=> selection_paths # <<>>
        /\ btn_reset_selection <=> selection_paths # <<>>

-----------------------------------------------------------------------------
(* app/utils/update.py: version strings and UpdateHandler._find_update_path. *)
(* A version is a Python string, a tuple of characters.                    *)

\* the characters of version tags in the order of their code points
VersionChars == <<".", "0", "1", "2", "3", "4", "5", "6", "7", "8", "9", "v">>

Ord(c) == CHOOSE k \in 1..Len(VersionChars) : VersionChars[k] = c

\* Python's a < b on strings: the first differing character decides, a
\* proper prefix is smaller
StrLess(a, b) ==
    \E k \in 1..(Len(b)) :
        /\ \A j \in 1..(k - 1) : j <= Len(a) /\ a[j] = b[j]
        /\ k - 1 <= Len(a)
        /\ \/ k > Len(a)
           \/ Ord(a[k]) < Ord(b[k])

V080 == <<"v", "0", ".", "8", ".", "0">>
V090 == <<"v", "0", ".", "9", ".", "0">>
V091 == <<"v", "0", ".", "9", ".", "1">>
V0100 == <<"v", "0", ".", "1", "0", ".", "0">>

\* a package of manifest['packages'][to_version]
Package(from_version, to_version, size, file) ==
    [from_version |-> from_version, to_version |-> to_version, size |-> size, file |-> file]

\* The packages a manifest may list, in the order of manifest['packages']
\* (one list per target version): a direct package 0.9.0 -> 0.9.1 and a
\* cheaper chain through 0.10.0, a direct package as cheap as the chain, a
\* package back that closes a cycle of size 0, and a package to 0.8.0,
\* which no manifest of this model lists as a version.
PackagePool ==
    << Package(V090, V091, 5, "a.zip"),
       Package(V0100, V091, 2, "c.zip"),
       Package(V090, V091, 4, "f.zip"),
       Package(V090, V0100, 2, "b.zip"),
       Package(V090, V0100, 0, "e.zip"),
       Package(V0100, V090, 0, "d.zip"),
       Package(V0100, V080, 1, "g.zip") >>

VersionLists == {{V090, V091, V0100}, {V091, V0100}, {V090, V0100}}

Manifest(versions, packages) == [versions |-> versions, packages |-> packages]

Manifests ==
    {Manifest(vs, SubList(PackagePool, S, 1)) :
        vs \in VersionLists, S \in SUBSET (1..Len(PackagePool))}

CallVersions == {V090, V091, V0100, V080}

\* heapq.heappop(pq): the smallest (distance, version) tuple
HeapMin(pq) ==
    CHOOSE e \in pq : \A f \in pq :
        \/ e = f
        \/ e[1] < f[1]
        \/ e[1] = f[1] /\ StrLess(e[2], f[2])

\* A version is improved only while it has no distance yet (mutant).
ImprovesUnreachedOnly(distances, to_v, new_dist) ==
    to_v \notin DOMAIN distances

\* new_dist < distances[to_v]; a version that is not a key of distances has
\* the distance float('inf')
Improves(distances, to_v, new_dist) ==
    to_v \notin DOMAIN distances \/ new_dist < distances[to_v]

RECURSIVE RelaxFrom(_, _, _, _, _, _)
\* The loop of lines 210-216 from the i-th edge on. s holds distances (the
\* finite ones), previous_nodes (the ones that are not None), pq, and raised:
\* distances[to_v] of a version the manifest does not list is a KeyError.
RelaxFrom(versions, edges, i, current_dist, current_v, s) ==
    IF i > Len(edges) \/ s.raised THEN s
    ELSE LET e == edges[i]
             new_dist == current_dist + e.size
         IN  IF e.from_version # current_v
             THEN RelaxFrom(versions, edges, i + 1, current_dist, current_v, s)
             ELSE IF e.to_version \notin versions
             THEN [s EXCEPT !.raised = TRUE]
             ELSE IF Improves(s.distances, e.to_version, new_dist)
             THEN RelaxFrom(versions, edges, i + 1, current_dist, current_v,
                            [s EXCEPT !.distances = DictPut(@, e.to_version, new_dist),
                                      !.previous_nodes = DictPut(@, e.to_version, e),
                                      !.pq = @ \cup {<<new_dist, e.to_version>>}])
             ELSE RelaxFrom(versions, edges, i + 1, current_dist, current_v, s)

RECURSIVE SearchFrom(_, _, _)
\* the loop of lines 205-216
SearchFrom(versions, edges, s) ==
    IF s.pq = {} \/ s.raised THEN s
    ELSE LET top == HeapMin(s.pq)
             popped == [s EXCEPT !.pq = @ \ {top}]
         IN  IF top[1] > s.distances[top[2]]
             THEN SearchFrom(versions, edges, popped)
             ELSE SearchFrom(versions, edges,
                             RelaxFrom(versions, edges, 1, top[1], top[2], popped))

\* a package of the returned path: pkg.copy() with download_from_tag
PathPackage(pkg) ==
    [from_version |-> pkg.from_version, size |-> pkg.size, file |-> pkg.file,
     download_from_tag |-> pkg.to_version]

RECURSIVE PathBack(_, _, _, _)
\* the loop of lines 220-228, then path.reverse(): path is kept in reverse
PathBack(previous_nodes, current, start_version, path) ==
    IF current = start_version THEN path
    ELSE IF current \notin DOMAIN previous_nodes THEN <<>>
    ELSE PathBack(previous_nodes, previous_nodes[current].from_version, start_version,
                  <<PathPackage(previous_nodes[current])>> \o path)

\* _find_update_path(start_version, end_version): the path, and whether the
\* call raised KeyError
FindUpdatePath(manifest, start_version, end_version) ==
    IF start_version \notin manifest.versions THEN [path |-> <<>>, raised |-> FALSE]
    ELSE LET s == SearchFrom(manifest.versions, manifest.packages,
                             [distances |-> DictPut(EmptyDict, start_version, 0),
                              previous_nodes |-> EmptyDict,
                              pq |-> {<<0, start_version>>},
                              raised |-> FALSE])
         IN  IF s.raised THEN [path |-> <<>>, raised |-> TRUE]
             ELSE [path |-> PathBack(s.previous_nodes, end_version, start_version, <<>>),
                   raised |-> FALSE]

\* a manifest was received and _find_update_path was called on it
InitPath ==
    /\ ocr_results = <<>>
    /\ profiles = EmptyDict
    /\ active_profile_name = "Original"
    /\ emitted = <<>>
    /\ raised = FALSE
    /\ ret = None
    /\ last = NoCall
    /\ streak = NoStreak
    /\ exp_call = NoExport
    /\ exp_lines = <<>>
    /\ content = <<>>
    /\ imp_pc = "idle"
    /\ imp_lines = <<>>
    /\ imp_idx = 0
    /\ translations = EmptyDict
    /\ current_filename = None
    /\ min_text_height = 0
    /\ max_text_height = 0
    /\ min_confidence = 0
    /\ auto_context_fill = FALSE
    /\ stop_requested = FALSE
    /\ ocr_pc = "none"
    /\ was_resized = FALSE
    /\ scaled_results = <<>>
    /\ filter_i = 0
    /\ filtered_results = <<>>
    /\ merged_results = <<>>
    /\ ocr_signals = <<>>
    /\ merge_calls = <<>>
    /\ stop_seen_at = ""
    /\ manual_call = NoManualCall
    /\ is_running = TRUE
    /\ tt_pc = "none"
    /\ response_stream = <<>>
    /\ full_response_text = <<>>
    /\ tt_signals = <<>>
    /\ stopped_at = ""
    /\ manual_ocr_handler = Handler(FALSE, None)
    /\ context_fill_handler = Handler(FALSE, None)
    /\ mode_last = NoModeCall
    /\ selection_paths = <<>>
    /\ btn_process_fill = FALSE
    /\ btn_reset_selection = FALSE
    /\ selected_since_reset = {}
    /\ last_rect = {}
    /\ path_call = NoPathCall
    /\ app_version = <<>>
    /\ latest_release_data = NoRelease
    /\ up_pc = "idle"
    /\ manifest_data = NoManifest
    /\ update_path = <<>>
    /\ download_queue = <<>>
    /\ downloaded_files = <<>>
    /\ downloaded_update_dir = FALSE
    /\ update_temp_dir = NoDir
    /\ up_signals = <<>>
    /\ up_last = NoUpdateStep
    /\ attempt = "none"
    /\ fetched = <<>>
    /\ dir_open = FALSE
    /\ existing_ret = None
    /\ worker_pc = "none"
    /\ install_disk = EmptyDict
    /\ extract_path = EmptyDict
    /\ worker_manifest = NoWorkerManifest
    /\ locked_files = {}
    /\ worker_error = ""
    /\ disk_before = EmptyDict
    /\ extract_before = EmptyDict

\* self.update_path = self._find_update_path(self.app_version, target_version)
FindUpdatePathCall ==
    /\ ~path_call.called
    /\ \E manifest \in Manifests, start_version \in CallVersions, end_version \in CallVersions :
          LET r == FindUpdatePath(manifest, start_version, end_version)
          IN  path_call' = PathCall(TRUE, manifest, start_version, end_version,
                                    r.path, r.raised)
    /\ UNCHANGED notPathVars

PathNext ==
    \/ FindUpdatePathCall

SpecPath == InitPath /\ [][PathNext]_vars

-----------------------------------------------------------------------------
(* Properties of _find_update_path.                                        *)

\* the chains of up to three packages of the manifest of the call (a chain
\* of minimal size visits no version twice, and the manifests list three)
ChainsOfCall ==
    LET packages == path_call.manifest.packages
        n == Len(packages)
        seqs == UNION {[1..k -> 1..n] : k \in 1..3}
    IN  {c \in seqs :
            /\ packages[c[1]].from_version = path_call.start_version
            /\ packages[c[Len(c)]].to_version = path_call.end_version
            /\ \A k \in 1..(Len(c) - 1) :
                  packages[c[k]].to_version = packages[c[k + 1]].from_version}

RECURSIVE SumSizes(_, _)
SumSizes(sizes, i) == IF i > Len(sizes) THEN 0 ELSE sizes[i] + SumSizes(sizes, i + 1)

ChainSize(c) == SumSizes([k \in 1..Len(c) |-> path_call.manifest.packages[c[k]].size], 1)

\* the returned path is a chain from start to end of minimal total size
PathIsMinimalChain ==
    LET path == path_call.path
    IN  /\ path # <<>>
        /\ path[1].from_version = path_call.start_version
        /\ path[Len(path)].download_from_tag = path_call.end_version
        /\ \A k \in 1..(Len(path) - 1) :
              path[k].download_from_tag = path[k + 1].from_version
        /\ \A k \in 1..Len(path) :
              \E i \in 1..Len(path_call.manifest.packages) :
                  PathPackage(path_call.manifest.packages[i]) = path[k]
        /\ \A c \in ChainsOfCall :
              SumSizes([k \in 1..Len(path) |-> path[k].size], 1) <= ChainSize(c)

\* What the claim says of a call that returned, for start # end.
ReturnsAsClaimed ==
    /\ (/\ path_call.start_version \in path_call.manifest.versions
        /\ ChainsOfCall # {}
        /\ path_call.start_version # path_call.end_version)
          => PathIsMinimalChain
    /\ (path_call.start_version \notin path_call.manifest.versions \/ ChainsOfCall = {})
          => path_call.path = <<>>

\* C33 as stated: every call of _find_update_path returns, a chain of
\* minimal total size from start to end when there is one and start is a
\* listed version, an empty list when start is not listed or no chain exists.
C33_AlwaysReturns ==
    path_call.called => (~path_call.raised /\ ReturnsAsClaimed)

\* the versions that chains of packages lead to from the start version
ReachedFromStart ==
    LET packages == path_call.manifest.packages
        Step(S) == S \cup {packages[i].to_version :
                              i \in {j \in 1..Len(packages) : packages[j].from_version \in S}}
    IN  Step(Step(Step({path_call.start_version})))

\* C33 (amended): a call of _find_update_path raises KeyError exactly when
\* start is a listed version and a package that starts at a version reached
\* from start produces a version the manifest does not list; every other
\* call returns, a chain of minimal total size from start to end when there
\* is one and start is listed, an empty list when start is not listed or no
\* chain exists.
C33_ReturnsOrRaises ==
    path_call.called =>
        /\ path_call.raised <=>
              /\ path_call.start_version \in path_call.manifest.versions
              /\ \E i \in 1..Len(path_call.manifest.packages) :
                    /\ path_call.manifest.packages[i].from_version \in ReachedFromStart
                    /\ path_call.manifest.packages[i].to_version
                         \notin path_call.manifest.versions
        /\ ~path_call.raised => ReturnsAsClaimed

\* From 0.9.0 to 0.9.1 the chain through 0.10.0 (2 + 2) was returned, not
\* the direct package of size 5.
C33_Witness ==
    /\ path_call.called
    /\ ~path_call.raised
    /\ path_call.start_version = V090
    /\ path_call.end_version = V091
    /\ Len(path_call.manifest.packages) = 3
    /\ path_call.manifest.packages[1].size = 5
    /\ Len(path_call.path) = 2
    /\ path_call.path[1].file = "b.zip"
    /\ path_call.path[2].file = "c.zip"

-----------------------------------------------------------------------------
(* app/utils/update.py: UpdateHandler, the check for a release, the        *)
(* download of its packages and the hand-over to the updater.  The window  *)
(* calls one public method at a time, when no reply is awaited; the        *)
(* application may be closed or killed at any moment.                      *)

\* the versions an installation may have
AppVersions == {V090, V0100}

\* the tag_name of the latest release (None: the release has none)
ReleaseTags == {None, V090, V091, V0100}

ReleasePool == {Release(t, h) : t \in ReleaseTags, h \in BOOLEAN}

\* a reply of the network: whether reply.error() is set, whether its body
\* parses as JSON, and the parsed body
Reply(error, parses, body) == [error |-> error, parses |-> parses, body |-> body]

\* replies to the request of check_for_updates; the body is the list of
\* releases
ReleasesReplies ==
    {Reply(TRUE, FALSE, <<>>), Reply(FALSE, FALSE, <<>>), Reply(FALSE, TRUE, <<>>)}
        \cup {Reply(FALSE, TRUE, <<r>>) : r \in ReleasePool}

\* The manifests a release may carry: a direct package and a cheaper chain
\* of two, one package, none, a package to a version the manifest does not
\* list, and a package from 0.10.0 to 0.9.0.
ReceivedManifests ==
    { Manifest({V090, V091, V0100}, <<PackagePool[1], PackagePool[2], PackagePool[4]>>),
      Manifest({V090, V091, V0100}, <<PackagePool[1]>>),
      Manifest({V090, V091, V0100}, <<>>),
      Manifest({V090, V091, V0100}, <<PackagePool[4], PackagePool[7]>>),
      Manifest({V090, V091, V0100}, <<PackagePool[6]>>) }

\* replies to the request of download_manifest_and_start_update
ManifestReplies ==
    {Reply(TRUE, FALSE, NoManifest), Reply(FALSE, FALSE, NoManifest)}
        \cup {Reply(FALSE, TRUE, mf) : mf \in ReceivedManifests}

\* self.update_temp_dir, the path
UpdateTempDir == <<"update_package">>

SigStatusChanged == <<"status_changed">>
SigErrorOccurred == <<"error_occurred">>
\* update_info is {"to_version": v}, or {} (None here)
SigUpdateCheckFinished(update_available, to_version) ==
    <<"update_check_finished", update_available, to_version>>
\* path_to_update_dir is the directory, or "" (the empty string)
SigDownloadFinished(success, path_to_update_dir) ==
    <<"download_finished", success, path_to_update_dir>>

\* a new UpdateHandler of an installation with no download behind it
InitUpdate ==
    /\ ocr_results = <<>>
    /\ profiles = EmptyDict
    /\ active_profile_name = "Original"
    /\ emitted = <<>>
    /\ raised = FALSE
    /\ ret = None
    /\ last = NoCall
    /\ streak = NoStreak
    /\ exp_call = NoExport
    /\ exp_lines = <<>>
    /\ content = <<>>
    /\ imp_pc = "idle"
    /\ imp_lines = <<>>
    /\ imp_idx = 0
    /\ translations = EmptyDict
    /\ current_filename = None
    /\ min_text_height = 0
    /\ max_text_height = 0
    /\ min_confidence = 0
    /\ auto_context_fill = FALSE
    /\ stop_requested = FALSE
    /\ ocr_pc = "none"
    /\ was_resized = FALSE
    /\ scaled_results = <<>>
    /\ filter_i = 0
    /\ filtered_results = <<>>
    /\ merged_results = <<>>
    /\ ocr_signals = <<>>
    /\ merge_calls = <<>>
    /\ stop_seen_at = ""
    /\ manual_call = NoManualCall
    /\ is_running = TRUE
    /\ tt_pc = "none"
    /\ response_stream = <<>>
    /\ full_response_text = <<>>
    /\ tt_signals = <<>>
    /\ stopped_at = ""
    /\ manual_ocr_handler = Handler(FALSE, None)
    /\ context_fill_handler = Handler(FALSE, None)
    /\ mode_last = NoModeCall
    /\ selection_paths = <<>>
    /\ btn_process_fill = FALSE
    /\ btn_reset_selection = FALSE
    /\ selected_since_reset = {}
    /\ last_rect = {}
    /\ path_call = NoPathCall
    /\ app_version \in AppVersions
    /\ latest_release_data = NoRelease
    /\ up_pc = "idle"
    /\ manifest_data = NoManifest
    /\ update_path = <<>>
    /\ download_queue = <<>>
    /\ downloaded_files = <<>>
    /\ downloaded_update_dir = FALSE
    /\ update_temp_dir = NoDir
    /\ up_signals = <<>>
    /\ up_last = NoUpdateStep
    /\ attempt = "none"
    /\ fetched = <<>>
    /\ dir_open = FALSE
    /\ existing_ret = None
    /\ worker_pc = "none"
    /\ install_disk = EmptyDict
    /\ extract_path = EmptyDict
    /\ worker_manifest = NoWorkerManifest
    /\ locked_files = {}
    /\ worker_error = ""
    /\ disk_before = EmptyDict
    /\ extract_before = EmptyDict

\* check_for_updates()
CheckForUpdates ==
    /\ up_pc = "idle"
    /\ latest_release_data' = NoRelease
    /\ up_pc' = "releases"
    /\ up_signals' = <<SigStatusChanged>>
    /\ up_last' = UpdateStep("check_for_updates", "", None)
    /\ attempt' = "none"
    /\ UNCHANGED <<app_version, manifest_data, update_path, download_queue,
                   downloaded_files, downloaded_update_dir, update_temp_dir, fetched,
                   dir_open, existing_ret>>
    /\ UNCHANGED notUpdateVars

\* _on_releases_check_finished(): the reply to check_for_updates arrived
OnReleasesCheckFinished ==
    /\ up_pc = "releases"
    /\ \E reply \in ReleasesReplies :
          LET latest_version == reply.body[1].tag_name
          IN  IF reply.error
              THEN /\ up_signals' = up_signals \o <<SigErrorOccurred,
                                                    SigUpdateCheckFinished(FALSE, None)>>
                   /\ up_last' = UpdateStep("_on_releases_check_finished", "error", None)
                   /\ UNCHANGED latest_release_data
              ELSE IF ~reply.parses
              THEN /\ up_signals' = up_signals \o <<SigErrorOccurred,
                                                    SigUpdateCheckFinished(FALSE, None)>>
                   /\ up_last' = UpdateStep("_on_releases_check_finished", "unparsable", None)
                   /\ UNCHANGED latest_release_data
              ELSE IF reply.body = <<>>
              THEN /\ up_signals' = up_signals \o <<SigStatusChanged,
                                                    SigUpdateCheckFinished(FALSE, None)>>
                   /\ up_last' = UpdateStep("_on_releases_check_finished", "no_releases", None)
                   /\ UNCHANGED latest_release_data
              ELSE IF latest_version = None
              THEN /\ up_signals' = up_signals \o <<SigErrorOccurred,
                                                    SigUpdateCheckFinished(FALSE, None)>>
                   /\ up_last' = UpdateStep("_on_releases_check_finished", "no_tag", None)
                   /\ UNCHANGED latest_release_data
              ELSE IF StrLess(app_version, latest_version)
              THEN /\ latest_release_data' = reply.body[1]
                   /\ up_signals' = up_signals \o <<SigStatusChanged,
                                         SigUpdateCheckFinished(TRUE, latest_version)>>
                   /\ up_last' = UpdateStep("_on_releases_check_finished", "release",
                                            latest_version)
              ELSE /\ up_signals' = up_signals \o <<SigStatusChanged,
                                                    SigUpdateCheckFinished(FALSE, None)>>
                   /\ up_last' = UpdateStep("_on_releases_check_finished", "release",
                                            latest_version)
                   /\ UNCHANGED latest_release_data
    /\ up_pc' = "idle"
    /\ UNCHANGED <<app_version, manifest_data, update_path, download_queue,
                   downloaded_files, downloaded_update_dir, update_temp_dir, attempt,
                   fetched, dir_open, existing_ret>>
    /\ UNCHANGED notUpdateVars

\* _cleanup_after_failure(): the directory is removed
CleanupAfterFailure(dir) == NoDir

\* _start_next_download() on the given queue, files, directory and signals;
\* can_open: open(file_path, 'wb') succeeds
StartNextDownload(queue, files, dir, signals, can_open) ==
    IF queue = <<>>
    THEN /\ downloaded_update_dir' = TRUE
         /\ up_signals' = signals \o <<SigStatusChanged,
                                       SigDownloadFinished(TRUE, UpdateTempDir)>>
         /\ download_queue' = queue
         /\ downloaded_files' = files
         /\ update_temp_dir' = dir
         /\ up_pc' = "idle"
         /\ attempt' = "closed"
         /\ dir_open' = FALSE
    ELSE IF ~can_open
    THEN /\ up_signals' = signals \o <<SigStatusChanged, SigErrorOccurred>>
         /\ download_queue' = Tail(queue)
         /\ update_temp_dir' = CleanupAfterFailure(dir)
         /\ downloaded_files' = <<>>
         /\ up_pc' = "idle"
         /\ dir_open' = FALSE
         /\ UNCHANGED <<downloaded_update_dir, attempt>>
    ELSE /\ up_signals' = signals \o <<SigStatusChanged>>
         /\ download_queue' = Tail(queue)
         /\ update_temp_dir' = [dir EXCEPT !.partial = @ \cup {Head(queue).file},
                                           !.files = @ \ {Head(queue).file}]
         /\ downloaded_files' = Append(files, Head(queue).file)
         /\ up_pc' = "download"
         /\ dir_open' = TRUE
         /\ UNCHANGED <<downloaded_update_dir, attempt>>

\* download_manifest_and_start_update()
DownloadManifestAndStartUpdate ==
    /\ up_pc = "idle"
    /\ IF latest_release_data = NoRelease \/ ~latest_release_data.has_manifest
       THEN /\ up_signals' = <<SigErrorOccurred, SigDownloadFinished(FALSE, <<>>)>>
            /\ attempt' = "closed"
            /\ up_pc' = "idle"
            /\ up_last' = UpdateStep("download_manifest_and_start_update", "no_manifest", None)
       ELSE /\ up_signals' = <<SigStatusChanged>>
            /\ attempt' = "open"
            /\ up_pc' = "manifest"
            /\ up_last' = UpdateStep("download_manifest_and_start_update", "", None)
    /\ fetched' = <<>>
    /\ UNCHANGED <<app_version, latest_release_data, manifest_data, update_path,
                   download_queue, downloaded_files, downloaded_update_dir,
                   update_temp_dir, dir_open, existing_ret>>
    /\ UNCHANGED notUpdateVars

\* _on_manifest_received(), with _process_manifest(), start_update_download()
\* and the first _start_next_download()
OnManifestReceived ==
    /\ up_pc = "manifest"
    /\ \E reply \in ManifestReplies, can_open \in BOOLEAN :
          LET r == FindUpdatePath(reply.body, app_version, latest_release_data.tag_name)
              failed(outcome) ==
                  /\ up_signals' = up_signals \o <<SigErrorOccurred,
                                                   SigDownloadFinished(FALSE, <<>>)>>
                  /\ attempt' = "closed"
                  /\ up_pc' = "idle"
                  /\ up_last' = UpdateStep("_on_manifest_received", outcome, None)
                  /\ UNCHANGED <<download_queue, downloaded_files, downloaded_update_dir,
                                 update_temp_dir, dir_open>>
          IN  IF reply.error
              THEN /\ failed("error")
                   /\ UNCHANGED <<manifest_data, update_path>>
              ELSE IF ~reply.parses
              THEN /\ failed("unparsable")
                   /\ UNCHANGED <<manifest_data, update_path>>
              ELSE IF r.raised
              THEN /\ failed("key_error")
                   /\ manifest_data' = reply.body
                   /\ UNCHANGED update_path
              ELSE IF r.path = <<>>
              THEN /\ failed("no_path")
                   /\ manifest_data' = reply.body
                   /\ update_path' = r.path
              ELSE /\ manifest_data' = reply.body
                   /\ update_path' = r.path
                   /\ StartNextDownload(r.path, <<>>, Dir(TRUE, TRUE, {}, {}),
                                        up_signals, can_open)
                   /\ up_last' = UpdateStep("_on_manifest_received",
                                            IF can_open THEN "path" ELSE "open_failed", None)
    /\ UNCHANGED <<app_version, latest_release_data, fetched, existing_ret>>
    /\ UNCHANGED notUpdateVars

\* _on_download_finished(), with the next _start_next_download()
OnDownloadFinished ==
    /\ up_pc = "download"
    /\ \E error \in BOOLEAN, can_open \in BOOLEAN :
          LET file == downloaded_files[Len(downloaded_files)]
          IN  IF error
              THEN /\ up_signals' = up_signals \o <<SigErrorOccurred,
                                                    SigDownloadFinished(FALSE, <<>>)>>
                   /\ update_temp_dir' = CleanupAfterFailure(update_temp_dir)
                   /\ downloaded_files' = <<>>
                   /\ attempt' = "closed"
                   /\ up_pc' = "idle"
                   /\ dir_open' = FALSE
                   /\ up_last' = UpdateStep("_on_download_finished", "error", None)
                   /\ UNCHANGED <<download_queue, downloaded_update_dir, fetched>>
              ELSE /\ fetched' = Append(fetched, file)
                   /\ StartNextDownload(download_queue, downloaded_files,
                                        [update_temp_dir EXCEPT !.partial = @ \ {file},
                                                                !.files = @ \cup {file}],
                                        up_signals, can_open)
                   /\ up_last' = UpdateStep("_on_download_finished",
                                            IF download_queue = <<>> \/ can_open
                                            THEN "ok" ELSE "open_failed", None)
    /\ UNCHANGED <<app_version, latest_release_data, manifest_data, update_path,
                   existing_ret>>
    /\ UNCHANGED notUpdateVars

\* check_for_existing_download(): the directory, or None
CheckForExistingDownload(setting, dir) ==
    IF setting /\ dir.exists /\ dir.manifest_json THEN UpdateTempDir ELSE None

CheckForExistingDownloadCall ==
    /\ up_pc = "idle"
    /\ existing_ret' = CheckForExistingDownload(downloaded_update_dir, update_temp_dir)
    /\ up_last' = UpdateStep("check_for_existing_download", "", None)
    /\ UNCHANGED <<app_version, latest_release_data, up_pc, manifest_data, update_path,
                   download_queue, downloaded_files, downloaded_update_dir,
                   update_temp_dir, up_signals, attempt, fetched, dir_open>>
    /\ UNCHANGED notUpdateVars

\* apply_update(update_dir) on update_temp_dir; updater_exists: Updater.exe
\* is installed; launched: QProcess.startDetached succeeds
ApplyUpdate ==
    /\ up_pc = "idle"
    /\ \E updater_exists \in BOOLEAN, launched \in BOOLEAN :
          IF ~updater_exists \/ ~update_temp_dir.exists
          THEN /\ up_signals' = <<SigErrorOccurred>>
               /\ up_last' = UpdateStep("apply_update", "refused", None)
               /\ UNCHANGED <<downloaded_update_dir, up_pc>>
          ELSE /\ downloaded_update_dir' = FALSE
               /\ IF launched
                  THEN /\ up_pc' = "quit"
                       /\ up_signals' = <<>>
                       /\ up_last' = UpdateStep("apply_update", "launched", None)
                  ELSE /\ up_pc' = "idle"
                       /\ up_signals' = <<SigErrorOccurred>>
                       /\ up_last' = UpdateStep("apply_update", "not_launched", None)
    /\ attempt' = "none"
    /\ UNCHANGED <<app_version, latest_release_data, manifest_data, update_path,
                   download_queue, downloaded_files, update_temp_dir, fetched,
                   dir_open, existing_ret>>
    /\ UNCHANGED notUpdateVars

\* The application ends (closed, killed, or quit for the updater) and is
\* started again: a new UpdateHandler, the settings and the disk as they
\* were.  After apply_update the updater may have installed a version and
\* removed the directory (updater.py, line 109).
Restart ==
    /\ \E updated \in BOOLEAN, version \in AppVersions :
          IF up_pc = "quit" /\ updated
          THEN /\ app_version' = version
               /\ update_temp_dir' = NoDir
               /\ dir_open' = FALSE
          ELSE /\ version = app_version
               /\ ~updated
               /\ UNCHANGED <<app_version, update_temp_dir, dir_open>>
    /\ latest_release_data' = NoRelease
    /\ up_pc' = "idle"
    /\ manifest_data' = NoManifest
    /\ update_path' = <<>>
    /\ download_queue' = <<>>
    /\ downloaded_files' = <<>>
    /\ up_signals' = <<>>
    /\ up_last' = UpdateStep("__init__", "", None)
    /\ attempt' = "none"
    /\ fetched' = <<>>
    /\ existing_ret' = None
    /\ UNCHANGED downloaded_update_dir
    /\ UNCHANGED notUpdateVars

UpdateNext ==
    \/ CheckForUpdates
    \/ OnReleasesCheckFinished
    \/ DownloadManifestAndStartUpdate
    \/ OnManifestReceived
    \/ OnDownloadFinished
    \/ CheckForExistingDownloadCall
    \/ ApplyUpdate
    \/ Restart

SpecUpdate == InitUpdate /\ [][UpdateNext]_vars

\* Qt delivers the finished signal of every request it was given: a reply
\* that is awaited arrives, unless the application ends first.
SpecUpdateFair ==
    /\ SpecUpdate
    /\ WF_vars(OnReleasesCheckFinished)
    /\ WF_vars(OnManifestReceived)
    /\ WF_vars(OnDownloadFinished)

-----------------------------------------------------------------------------
(* Claims on the update check.                                             *)

RECURSIVE NumbersFrom(_, _, _, _)
\* the numeric components of the version v from character i on
NumbersFrom(v, i, cur, acc) ==
    IF i > Len(v) THEN Append(acc, cur)
    ELSE IF v[i] = "." THEN NumbersFrom(v, i + 1, 0, Append(acc, cur))
    ELSE IF v[i] = "v" THEN NumbersFrom(v, i + 1, cur, acc)
    ELSE NumbersFrom(v, i + 1, cur * 10 + (Ord(v[i]) - 2), acc)

\* "v0.10.0" as <<0, 10, 0>>
VersionNumbers(v) == NumbersFrom(v, 1, 0, <<>>)

\* a < b component by component, as numbers
NumbersLess(a, b) ==
    \E k \in 1..Len(b) :
        /\ k - 1 <= Len(a)
        /\ \A j \in 1..(k - 1) : a[j] = b[j]
        /\ \/ k > Len(a)
           \/ a[k] < b[k]

NewerVersion(tag, installed) == NumbersLess(VersionNumbers(installed), VersionNumbers(tag))

UpdateSignalsNamed(name) == SelectSeq(up_signals, LAMBDA s : s[1] = name)

\* C34: a completed check emits update_check_finished exactly once:
\* (True, {to_version}) exactly when the latest release has a tag that
\* denotes a newer version than the installed one, components compared as
\* numbers, and (False, {}) in every other case, errors included.
C34_UpdateWhenNewer ==
    up_last.op = "_on_releases_check_finished" =>
        LET sent == UpdateSignalsNamed("update_check_finished")
        IN  /\ Len(sent) = 1
            /\ IF up_last.outcome = "release" /\ NewerVersion(up_last.tag_name, app_version)
               THEN sent[1] = SigUpdateCheckFinished(TRUE, up_last.tag_name)
               ELSE sent[1] = SigUpdateCheckFinished(FALSE, None)

-----------------------------------------------------------------------------
(* Claims on the download attempt.                                         *)

\* the files of the packages of update_path, in path order
PathFiles == [k \in 1..Len(update_path) |-> update_path[k].file]

\* what an attempt has emitted is right so far: no download_finished while
\* it is open and one when it is closed; the packages arrive one at a time
\* in path order; (True, dir) only after every package of the path arrived
\* without error, else (False, "")
AttemptOutcomeRight ==
    LET sent == UpdateSignalsNamed("download_finished")
    IN  /\ attempt = "open" => sent = <<>>
        /\ attempt # "none" =>
              /\ Len(fetched) <= Len(PathFiles)
              /\ fetched = SubSeq(PathFiles, 1, Len(fetched))
              /\ Cardinality(update_temp_dir.partial) <= 1
        /\ attempt = "closed" =>
              /\ Len(sent) = 1
              /\ \/ /\ sent[1] = SigDownloadFinished(TRUE, UpdateTempDir)
                    /\ update_path # <<>>
                    /\ fetched = PathFiles
                    /\ update_temp_dir.files = {PathFiles[k] : k \in 1..Len(PathFiles)}
                 \/ /\ sent[1] = SigDownloadFinished(FALSE, <<>>)
                    /\ fetched # PathFiles \/ update_path = <<>>

\* C35: every attempt started with download_manifest_and_start_update
\* eventually ends with exactly one download_finished: (True, dir) only
\* after every package of the update path was downloaded without error, one
\* at a time in path order, (False, "") on any failure.
C35_AttemptEndsOnce ==
    /\ (attempt = "open") ~> (attempt # "open")
    /\ []AttemptOutcomeRight

-----------------------------------------------------------------------------
(* Claims on the stored download.                                          *)

\* C36: check_for_existing_download returns a directory only if it holds a
\* completely downloaded update: never one in which a later download
\* attempt was started and not finished.
C36_ExistingDownloadComplete ==
    (up_last.op = "check_for_existing_download" /\ existing_ret # None) =>
        /\ update_temp_dir.exists
        /\ update_temp_dir.manifest_json
        /\ update_temp_dir.partial = {}
        /\ ~dir_open

-----------------------------------------------------------------------------
(* dev/updater/updater.py: UpdateWorker, from the extracted package on.    *)
(* The updater is a Windows program (Updater.exe, main.exe): os.path is    *)
(* ntpath.  A path is a Python string, a tuple of characters; the content  *)
(* of a file is a name.                                                    *)

\* self.install_dir
InstallDir == <<"C", ":", "\\", "i">>

\* patch_info["file"] and patch_info["patch_file"]
MainExe == <<"m">>
PatchFileName == <<"m", ".", "p">>

\* ".new"
DotNew == <<".", "n", "e", "w">>

\* get_sha256(file_path) of a file with this content: contents that differ
\* have hashes that differ
Sha256(file_content) == <<"sha256", file_content>>

\* the separators of ntpath
Seps == {"\\", "/"}

\* ntpath.splitdrive(p) for paths with a drive letter or none
SplitDrive(p) ==
    IF Len(p) >= 2 /\ p[2] = ":" THEN <<SubSeq(p, 1, 2), SubSeq(p, 3, Len(p))>>
    ELSE <<<<>>, p>>

\* os.path.join(path, p) on Windows
NtJoin(path, p) ==
    LET result_drive == SplitDrive(path)[1]
        result_path == SplitDrive(path)[2]
        p_drive == SplitDrive(p)[1]
        p_path == SplitDrive(p)[2]
        joined == IF result_path # <<>> /\ result_path[Len(result_path)] \notin Seps
                  THEN result_path \o <<"\\">> \o p_path
                  ELSE result_path \o p_path
    IN  IF p_path # <<>> /\ p_path[1] \in Seps
        THEN (IF p_drive # <<>> \/ result_drive = <<>> THEN p_drive ELSE result_drive)
                 \o p_path
        ELSE IF p_drive # <<>> /\ p_drive # result_drive
        THEN IF Lower(p_drive) # Lower(result_drive) THEN p ELSE p_drive \o joined
        ELSE result_drive \o joined

RECURSIVE SplitPath(_, _, _, _)
\* the components of path between separators, from character i on
SplitPath(path, i, cur, acc) ==
    IF i > Len(path) THEN Append(acc, cur)
    ELSE IF path[i] \in Seps THEN SplitPath(path, i + 1, <<>>, Append(acc, cur))
    ELSE SplitPath(path, i + 1, Append(cur, path[i]), acc)

RECURSIVE ResolveParts(_, _, _)
\* the components without "", "." and "..": ".." leaves the directory,
\* never the drive
ResolveParts(parts, i, acc) ==
    IF i > Len(parts) THEN acc
    ELSE IF parts[i] = <<".", ".">>
    THEN ResolveParts(parts, i + 1,
                      IF Len(acc) > 1 THEN SubSeq(acc, 1, Len(acc) - 1) ELSE acc)
    ELSE IF parts[i] = <<>> \/ parts[i] = <<".">> THEN ResolveParts(parts, i + 1, acc)
    ELSE ResolveParts(parts, i + 1, Append(acc, parts[i]))

RECURSIVE JoinParts(_, _)
JoinParts(parts, i) ==
    IF i > Len(parts) THEN <<>>
    ELSE IF i = Len(parts) THEN parts[i]
    ELSE parts[i] \o <<"\\">> \o JoinParts(parts, i + 1)

\* the file Windows opens for an absolute path with a drive letter
Resolve(path) == JoinParts(ResolveParts(SplitPath(path, 1, <<>>, <<>>), 1, <<>>), 1)

\* dict without the key k
DictDel(d, k) == [x \in (DOMAIN d) \ {k} |-> d[x]]

\* bsdiff4.file_patch accepts the content of this file as a patch
IsPatch(file_content) == file_content \in {"patch_old_new", "patch_old_bad"}

\* what bsdiff4.file_patch writes for an old file and a patch: the new file
\* the patch was made for, when old is the file it was made from
PatchResult(old_content, patch_content) ==
    IF old_content # "old" THEN "garbage"
    ELSE IF patch_content = "patch_old_new" THEN "new"
    ELSE "bad"

\* an _apply_patch that takes any installed file for the old one
OldHashUnchecked(disk, old_file_path, patch_info) == TRUE

\* current_old_hash does not differ from expected_old_hash (line 148)
OldHashMatches(disk, old_file_path, patch_info) ==
    Sha256(disk[old_file_path]) = patch_info.old_sha256

\* _apply_patch(patch_info, manifest) on the disk and the extracted files.
\* patch_fails: bsdiff4.file_patch raises, before or after it wrote to the
\* .new file; replace_fails: os.replace raises.  The result is the disk,
\* the extracted files and the exception ("": none).
ApplyPatch(disk, extract, mf, patch_fails, replace_fails) ==
    LET patch_info == mf.patch
        target_filename == patch_info.file
        patch_filename == patch_info.patch_file
        old_file_path == Resolve(NtJoin(InstallDir, target_filename))
        patched_file_dest_temp == Resolve(NtJoin(InstallDir, target_filename \o DotNew))
        failure(d, e) == [disk |-> d, extract |-> extract, error |-> e]
        patched == DictPut(disk, patched_file_dest_temp,
                           PatchResult(disk[old_file_path], extract[patch_filename]))
    IN  IF old_file_path \notin DOMAIN disk THEN failure(disk, "old_file_not_found")
        ELSE IF patch_filename \notin DOMAIN extract
        THEN failure(disk, "patch_file_missing")
        ELSE IF ~OldHashMatches(disk, old_file_path, patch_info)
        THEN failure(disk, "version_mismatch")
        ELSE IF patch_fails = "before_write" \/ ~IsPatch(extract[patch_filename])
        THEN failure(disk, "patch_failed")
        ELSE IF patch_fails = "after_write"
        THEN failure(DictDel(DictPut(disk, patched_file_dest_temp, "partial"),
                             patched_file_dest_temp), "patch_failed")
        ELSE IF /\ target_filename \in DOMAIN mf.files
                /\ Sha256(patched[patched_file_dest_temp]) # mf.files[target_filename]
        THEN failure(DictDel(patched, patched_file_dest_temp), "integrity_check_failed")
        ELSE IF replace_fails
        THEN failure(DictDel(patched, patched_file_dest_temp), "replace_failed")
        ELSE [disk |-> DictDel(DictPut(patched, old_file_path,
                                       patched[patched_file_dest_temp]),
                               patched_file_dest_temp),
              extract |-> DictDel(DictDel(extract, patch_filename), target_filename),
              error |-> ""]

\* ".." in relative_path
HasDotDot(relative_path) ==
    \E k \in 1..(Len(relative_path) - 1) :
        relative_path[k] = "." /\ relative_path[k + 1] = "."

\* the test of line 198
Skipped(relative_path) ==
    HasDotDot(relative_path) \/ (relative_path # <<>> /\ relative_path[1] = "/")

RECURSIVE DeleteFrom(_, _, _, _)
\* the loop of _delete_old_files from the i-th path on; os.remove of a
\* locked file raises OSError, which the loop catches
DeleteFrom(disk, files_to_remove, i, locked) ==
    IF i > Len(files_to_remove) THEN disk
    ELSE LET relative_path == files_to_remove[i]
             file_to_delete == Resolve(NtJoin(InstallDir, relative_path))
         IN  IF Skipped(relative_path)
             THEN DeleteFrom(disk, files_to_remove, i + 1, locked)
             ELSE IF file_to_delete \in DOMAIN disk /\ file_to_delete \notin locked
             THEN DeleteFrom(DictDel(disk, file_to_delete), files_to_remove, i + 1, locked)
             ELSE DeleteFrom(disk, files_to_remove, i + 1, locked)

\* _delete_old_files(files_to_remove): the disk afterwards
DeleteOldFiles(disk, files_to_remove, locked) == DeleteFrom(disk, files_to_remove, 1, locked)

\* _copy_new_files(): every extracted file is moved to its relative path
\* under install_dir
CopyNewFiles(disk, extract) ==
    LET dest_path(rel_path) == Resolve(NtJoin(InstallDir, rel_path))
        moved == {dest_path(rel_path) : rel_path \in DOMAIN extract}
    IN  [p \in (DOMAIN disk) \cup moved |->
            IF p \in moved
            THEN extract[CHOOSE rel_path \in DOMAIN extract : dest_path(rel_path) = p]
            ELSE disk[p]]

\* the paths a manifest may list in "_removed_files"
PathA == <<"a">>
PathSubA == <<"s", "/", "a">>
PathParent == <<".", ".", "\\", "x">>
PathSlash == <<"/", "x">>
PathDrive == <<"C", ":", "\\", "x">>
PathRooted == <<"\\", "x">>
PathOtherDrive == <<"D", ":", "\\", "x">>
PathNone == <<"n">>

RemovedLists ==
    { <<>>, <<PathA>>, <<PathSubA>>, <<PathParent>>, <<PathSlash>>, <<PathDrive>>,
      <<PathRooted>>, <<PathOtherDrive>>, <<PathNone, PathA>>, <<PathA, PathSubA>>,
      <<PathParent, PathA>>, <<PathA, PathDrive>> }

\* the files on disk besides the executable: two of the installation, one
\* beside the installation directory and one on another drive
OtherFiles ==
    (<<"C", ":", "\\", "i", "\\", "a">> :> "a1")
        @@ (<<"C", ":", "\\", "i", "\\", "s", "\\", "a">> :> "sa1")
        @@ (<<"C", ":", "\\", "x">> :> "x1")
        @@ (<<"D", ":", "\\", "x">> :> "dx1")

\* the disks an update may find: the executable of the version the patch
\* was made for, another one, or none
Disks ==
    {OtherFiles} \cup
    {DictPut(OtherFiles, Resolve(NtJoin(InstallDir, MainExe)), c) : c \in {"old", "other"}}

\* manifest["patch"]
PatchInfos == {NoPatch} \cup {PatchInfo(TRUE, MainExe, PatchFileName, Sha256(c)) : c \in {"old", "other"}}

\* manifest["files"]: no hash for the executable, the hash of the new
\* executable, or another hash
FileHashes == {EmptyDict} \cup {DictPut(EmptyDict, MainExe, Sha256(c)) : c \in {"new", "bad"}}

\* the extracted package: a changed file, with or without the patch file
\* and with or without a full copy of the executable
Extracts ==
    LET base == DictPut(EmptyDict, PathA, "a2")
        withPatch == {base} \cup {DictPut(base, PatchFileName, c) :
                                      c \in {"patch_old_new", "patch_old_bad", "no_patch"}}
    IN  withPatch \cup {DictPut(e, MainExe, "full") : e \in withPatch}

\* run has extracted the package
InitWorker ==
    /\ ocr_results = <<>>
    /\ profiles = EmptyDict
    /\ active_profile_name = "Original"
    /\ emitted = <<>>
    /\ raised = FALSE
    /\ ret = None
    /\ last = NoCall
    /\ streak = NoStreak
    /\ exp_call = NoExport
    /\ exp_lines = <<>>
    /\ content = <<>>
    /\ imp_pc = "idle"
    /\ imp_lines = <<>>
    /\ imp_idx = 0
    /\ translations = EmptyDict
    /\ current_filename = None
    /\ min_text_height = 0
    /\ max_text_height = 0
    /\ min_confidence = 0
    /\ auto_context_fill = FALSE
    /\ stop_requested = FALSE
    /\ ocr_pc = "none"
    /\ was_resized = FALSE
    /\ scaled_results = <<>>
    /\ filter_i = 0
    /\ filtered_results = <<>>
    /\ merged_results = <<>>
    /\ ocr_signals = <<>>
    /\ merge_calls = <<>>
    /\ stop_seen_at = ""
    /\ manual_call = NoManualCall
    /\ is_running = TRUE
    /\ tt_pc = "none"
    /\ response_stream = <<>>
    /\ full_response_text = <<>>
    /\ tt_signals = <<>>
    /\ stopped_at = ""
    /\ manual_ocr_handler = Handler(FALSE, None)
    /\ context_fill_handler = Handler(FALSE, None)
    /\ mode_last = NoModeCall
    /\ selection_paths = <<>>
    /\ btn_process_fill = FALSE
    /\ btn_reset_selection = FALSE
    /\ selected_since_reset = {}
    /\ last_rect = {}
    /\ path_call = NoPathCall
    /\ app_version = <<>>
    /\ latest_release_data = NoRelease
    /\ up_pc = "idle"
    /\ manifest_data = NoManifest
    /\ update_path = <<>>
    /\ download_queue = <<>>
    /\ downloaded_files = <<>>
    /\ downloaded_update_dir = FALSE
    /\ update_temp_dir = NoDir
    /\ up_signals = <<>>
    /\ up_last = NoUpdateStep
    /\ attempt = "none"
    /\ fetched = <<>>
    /\ dir_open = FALSE
    /\ existing_ret = None
    /\ worker_pc = "extracted"
    /\ install_disk \in Disks
    /\ extract_path \in Extracts
    /\ worker_manifest \in {WorkerManifest(p, f, r) :
                                p \in PatchInfos, f \in FileHashes, r \in RemovedLists}
    /\ locked_files \in {{}, {<<"C", ":", "\\", "i", "\\", "a">>}}
    /\ worker_error = ""
    /\ disk_before = install_disk
    /\ extract_before = extract_path

\* run, lines 83-90: the patch, if the manifest has one
ApplyPatchStep ==
    /\ worker_pc = "extracted"
    /\ IF worker_manifest.patch.present
       THEN \E patch_fails \in {"no", "before_write", "after_write"},
               replace_fails \in BOOLEAN :
                LET r == ApplyPatch(install_disk, extract_path, worker_manifest,
                                    patch_fails, replace_fails)
                IN  /\ install_disk' = r.disk
                    /\ extract_path' = r.extract
                    /\ worker_error' = r.error
                    /\ worker_pc' = IF r.error = "" THEN "patched" ELSE "failed"
       ELSE /\ worker_pc' = "patched"
            /\ UNCHANGED <<install_disk, extract_path, worker_error>>
    /\ UNCHANGED <<worker_manifest, locked_files, disk_before, extract_before>>
    /\ UNCHANGED notWorkerVars

\* run, lines 92-96: the removed files
DeleteOldFilesStep ==
    /\ worker_pc = "patched"
    /\ install_disk' = DeleteOldFiles(install_disk, worker_manifest.removed_files,
                                      locked_files)
    /\ worker_pc' = "deleted"
    /\ UNCHANGED <<extract_path, worker_manifest, locked_files, worker_error, disk_before,
                   extract_before>>
    /\ UNCHANGED notWorkerVars

\* run, lines 98-101: the new files
CopyNewFilesStep ==
    /\ worker_pc = "deleted"
    /\ install_disk' = CopyNewFiles(install_disk, extract_path)
    /\ extract_path' = EmptyDict
    /\ worker_pc' = "copied"
    /\ UNCHANGED <<worker_manifest, locked_files, worker_error, disk_before, extract_before>>
    /\ UNCHANGED notWorkerVars

\* run, lines 103-123: the application is started again, if it is there
FinishStep ==
    /\ worker_pc = "copied"
    /\ IF Resolve(NtJoin(InstallDir, MainExe)) \in DOMAIN install_disk
       THEN worker_pc' = "done" /\ UNCHANGED worker_error
       ELSE worker_pc' = "failed" /\ worker_error' = "main_executable_not_found"
    /\ UNCHANGED <<install_disk, extract_path, worker_manifest, locked_files, disk_before,
                   extract_before>>
    /\ UNCHANGED notWorkerVars

WorkerNext ==
    \/ ApplyPatchStep
    \/ DeleteOldFilesStep
    \/ CopyNewFilesStep
    \/ FinishStep

SpecWorker == InitWorker /\ [][WorkerNext]_vars

-----------------------------------------------------------------------------
(* Claims on the updater.                                                  *)

ExePath == Resolve(NtJoin(InstallDir, MainExe))

\* the content of the installed executable ("": there is none)
ExeOf(disk) == IF ExePath \in DOMAIN disk THEN disk[ExePath] ELSE ""

\* _apply_patch has run and ended with or without an exception
PatchStepDone ==
    /\ worker_pc = "extracted"
    /\ worker_pc' # "extracted"
    /\ worker_manifest.patch.present

\* C37: _apply_patch replaces the installed executable only if its SHA-256
\* is the manifest's old_sha256 and, when the manifest lists a hash for the
\* file, the patched file has that hash; when it fails, the executable is
\* as it was and no ".new" file remains; after a successful patch the copy
\* step leaves the patched executable as it is.
C37_PatchReplacesSafely ==
    [][ /\ PatchStepDone =>
              /\ ExeOf(install_disk') # ExeOf(install_disk) =>
                    /\ worker_pc' = "patched"
                    /\ Sha256(ExeOf(install_disk)) = worker_manifest.patch.old_sha256
                    /\ MainExe \in DOMAIN worker_manifest.files =>
                          Sha256(ExeOf(install_disk')) = worker_manifest.files[MainExe]
              /\ worker_pc' = "failed" =>
                    /\ ExeOf(install_disk') = ExeOf(install_disk)
                    /\ Resolve(NtJoin(InstallDir, MainExe \o DotNew))
                           \notin DOMAIN install_disk'
        /\ (worker_pc = "deleted" /\ worker_pc' = "copied"
                /\ worker_manifest.patch.present) =>
              ExeOf(install_disk') = ExeOf(install_disk)
      ]_vars

\* The executable was patched from the old to the new version, the hash of
\* the new one was listed and checked, and the package held a full copy of
\* the executable beside the patch: after the copy step the patched
\* executable is installed.
C37_Witness ==
    /\ worker_pc = "copied"
    /\ worker_manifest.patch.present
    /\ MainExe \in DOMAIN worker_manifest.files
    /\ MainExe \in DOMAIN extract_before
    /\ ExeOf(disk_before) = "old"
    /\ ExeOf(install_disk) = "new"

\* path lies under install_dir
InsideInstallDir(path) ==
    /\ Len(path) > Len(InstallDir) + 1
    /\ SubSeq(path, 1, Len(InstallDir) + 1) = InstallDir \o <<"\\">>

\* C38: _delete_old_files deletes no file outside the installation
\* directory, whatever paths "_removed_files" lists, and a file it cannot
\* delete does not end the update.
C38_DeletesOnlyInside ==
    [][ (worker_pc = "patched" /\ worker_pc' # "patched") =>
            /\ worker_pc' = "deleted"
            /\ worker_error' = ""
            /\ \A p \in DOMAIN install_disk :
                  ~InsideInstallDir(p) => p \in DOMAIN install_disk'
      ]_vars

====
